---- MODULE Spec2Model ----
(***************************************************************************)
(* Model of gmail-scholar-summary: the URL processor chain                 *)
(* (src/src/fetchers/url_processors.py), the link filter and extractor     *)
(* (src/src/link_filters.py), the mailbox link extraction                  *)
(* (src/src/gmail_client.py) and the orchestration (src/main.py).          *)
(*                                                                         *)
(* A Python str is modelled as a sequence of one-character strings, so     *)
(* that substring tests, regular-expression searches, query-string parsing *)
(* and percent-decoding are computed character by character as the code    *)
(* computes them.                                                          *)
(***************************************************************************)
EXTENDS Integers, Sequences, FiniteSets, TLC

VARIABLES
    input,      \* description of the URL handed to process_paper_url
    url,        \* the URL string handed to process_paper_url
    result,     \* process_paper_url(url)
    again,      \* process_paper_url(result)
    pc,         \* position of the URL-processing caller
    finput,     \* description of the URL handed to the link filter
    furl,       \* the URL string handed to NonPaperLinkFilter.should_keep
    keep,       \* what should_keep returned
    fpc,        \* position of the filter's caller
    titems,     \* description of the text handed to the link extractor
    text,       \* the text handed to LinkExtractor.extract_links
    filters,    \* the filters argument the LinkExtractor was constructed with
    links,      \* what extract_links returned
    epc,        \* position of the extractor's caller
    demails,    \* the email list handed to get_unique_links
    dunique,    \* what get_unique_links returned
    dpc,        \* position of get_unique_links' caller
    mailbox,    \* the bodies of the unread messages under the label
    emails,     \* main's emails
    unique_links, \* main's unique_links
    mpc,        \* position of main
    exit_code,  \* what main returned ("none" while it runs)
    pinput,     \* description of the URL handed to a processor or a chain
    purl,       \* the URL string handed to a processor or a chain
    pchain,     \* the processors of the URLProcessorChain, in list order
    pcall,      \* the method that was called on them
    poutcome,   \* what the call did: the value it returned or what it raised
    ppc,        \* position of the processors' caller
    cfilter,    \* the pattern lists of the link filter a caller configured
    curl,       \* the URL the caller asks the filter about
    cbuilt,     \* what constructing the filter and a LinkExtractor over it raised ("none" when nothing)
    ccall,      \* the per-URL method the caller called
    coutcome,   \* what that call did
    cpc,        \* position of the caller
    hurl,       \* the URL handed to SimpleHTMLFetcher.fetch
    hretry,     \* retry_times of the fetcher
    hprocessed, \* processed_url of the fetch call
    hattempt,   \* attempt, the loop index of the fetch call
    hlog,       \* what each session.get of the call met, in order
    hslept,     \* the seconds of each time.sleep of the call, in order
    hrequested, \* the URL of each session.get of the call, in order
    houtcome,   \* what the fetch call did
    hpc,        \* position of the fetch call
    surls,      \* the URLs handed to the PaperSummarizer
    sfates,     \* what the fetcher and the provider do for the URL at each position
    scall,      \* the method that was called on the summarizer
    sfetched,   \* the URLs fetcher.fetch was called with, in order
    ssummarized, \* the titles llm_provider.summarize was called with, in order
    sresult,    \* what the call did
    spc,        \* position of the caller of the summarizer
    lfile,      \* the YAML file load_config is pointed at
    lenv,       \* the environment variables of the process
    loutcome,   \* what load_config did
    lpc,        \* position of the caller of load_config
    bids,       \* the message ids handed to batch_mark_as_read
    bfates,     \* what the Gmail API does for the id at each position
    battempted, \* the ids messages().modify was called with, in order
    blogged,    \* the ids batch_mark_as_read logged an error for, in order
    boutcome,   \* what batch_mark_as_read did
    bpc,        \* position of the caller of batch_mark_as_read
    nfetcher,   \* the fetcher argument of PaperSummarizer(...)
    nprovider,  \* the llm_provider argument of PaperSummarizer(...)
    nenv,       \* the environment variables OpenAIProvider() reads
    noutcome,   \* what the construction did
    npc,        \* position of the code that constructs the summarizer
    xinstalled, \* the optional libraries that can be imported now
    xenv,       \* the environment variables GeminiProvider() reads
    xbuilt,     \* the libraries that could be imported when each stub was constructed
    xfetcher,   \* the DoclingFetcher instance, None before it is constructed
    xprovider,  \* the GeminiProvider instance, None before it is constructed
    xcall,      \* the last method called on a stub
    xoutcome,   \* what that call did
    rargs,      \* the command line arguments of main
    renv,       \* the environment variables main reads itself
    rconfig,    \* what load_config gave main
    remails,    \* how many emails main got
    rlinks,     \* how many unique links main got
    rpapers,    \* how many papers were processed successfully
    rcalls,     \* the calls of send_email and batch_mark_as_read main made, in order
    rprinted,   \* whether the report was printed
    rraised,    \* the exception a stage of main raised ("none" when none did)
    routcome,   \* what main did
    rpc         \* the stage main is at

chainVars == <<input, url, result, again, pc>>
filterVars == <<finput, furl, keep, fpc>>
extractVars == <<titems, text, filters, links, epc>>
dedupVars == <<demails, dunique, dpc>>
mainVars == <<mailbox, emails, unique_links, mpc, exit_code>>
procVars == <<pinput, purl, pchain, pcall, poutcome, ppc>>
cfgVars == <<cfilter, curl, cbuilt, ccall, coutcome, cpc>>
fetchVars == <<hurl, hretry, hprocessed, hattempt, hlog, hslept, hrequested, houtcome, hpc>>
sumVars == <<surls, sfates, scall, sfetched, ssummarized, sresult, spc>>
loadVars == <<lfile, lenv, loutcome, lpc>>
markVars == <<bids, bfates, battempted, blogged, boutcome, bpc>>
newVars == <<nfetcher, nprovider, nenv, noutcome, npc>>
stubVars == <<xinstalled, xenv, xbuilt, xfetcher, xprovider, xcall, xoutcome>>
runVars == <<rargs, renv, rconfig, remails, rlinks, rpapers, rcalls, rprinted, rraised, routcome, rpc>>
vars == <<chainVars, filterVars, extractVars, dedupVars, mainVars, procVars, cfgVars, fetchVars, sumVars, loadVars, markVars, newVars, stubVars, runVars>>

\* everything but one group
notChain == <<filterVars, extractVars, dedupVars, mainVars, procVars, cfgVars, fetchVars, sumVars, loadVars, markVars, newVars, stubVars, runVars>>
notFilter == <<chainVars, extractVars, dedupVars, mainVars, procVars, cfgVars, fetchVars, sumVars, loadVars, markVars, newVars, stubVars, runVars>>
notExtract == <<chainVars, filterVars, dedupVars, mainVars, procVars, cfgVars, fetchVars, sumVars, loadVars, markVars, newVars, stubVars, runVars>>
notDedup == <<chainVars, filterVars, extractVars, mainVars, procVars, cfgVars, fetchVars, sumVars, loadVars, markVars, newVars, stubVars, runVars>>
notMain == <<chainVars, filterVars, extractVars, dedupVars, procVars, cfgVars, fetchVars, sumVars, loadVars, markVars, newVars, stubVars, runVars>>
notCfg == <<chainVars, filterVars, extractVars, dedupVars, mainVars, procVars, fetchVars, sumVars, loadVars, markVars, newVars, stubVars, runVars>>
notProc == <<chainVars, filterVars, extractVars, dedupVars, mainVars, cfgVars, fetchVars, sumVars, loadVars, markVars, newVars, stubVars, runVars>>
notSum == <<chainVars, filterVars, extractVars, dedupVars, mainVars, procVars, cfgVars, fetchVars, loadVars, markVars, newVars, stubVars, runVars>>
notFetch == <<chainVars, filterVars, extractVars, dedupVars, mainVars, procVars, cfgVars, sumVars, loadVars, markVars, newVars, stubVars, runVars>>
notMark == <<chainVars, filterVars, extractVars, dedupVars, mainVars, procVars, cfgVars, fetchVars, sumVars, loadVars, newVars, stubVars, runVars>>
notLoad == <<chainVars, filterVars, extractVars, dedupVars, mainVars, procVars, cfgVars, fetchVars, sumVars, markVars, newVars, stubVars, runVars>>
notStub == <<chainVars, filterVars, extractVars, dedupVars, mainVars, procVars, cfgVars, fetchVars, sumVars, loadVars, markVars, newVars, runVars>>
notNew == <<chainVars, filterVars, extractVars, dedupVars, mainVars, procVars, cfgVars, fetchVars, sumVars, loadVars, markVars, stubVars, runVars>>
notRun == <<chainVars, filterVars, extractVars, dedupVars, mainVars, procVars, cfgVars, fetchVars, sumVars, loadVars, markVars, newVars, stubVars>>

----------------------------------------------------------------------------
(* Bounds of the model *)

\* deepest nesting of redirect wrappers around a destination URL
MaxNest == 2

\* most query parameters of a URL handed to the link filter
MaxParams == 2

\* most links in a text handed to the link extractor
MaxItems == 2

\* most links in an email list handed to get_unique_links
MaxLinks == 4

\* most links in the bodies of the mailbox main reads
MaxBodyLinks == 3

----------------------------------------------------------------------------
(* Python str operations *)

\* `p in s`
Contains(s, p) ==
    \E i \in 1..(Len(s) - Len(p) + 1) : \A k \in 1..Len(p) : s[i + k - 1] = p[k]

\* s.find(c) + 1 for a single character c (0 when absent)
IndexOf(s, c) ==
    IF \E i \in 1..Len(s) : s[i] = c
    THEN CHOOSE i \in 1..Len(s) : s[i] = c /\ \A j \in 1..(i - 1) : s[j] # c
    ELSE 0

\* s.split(c)
RECURSIVE Split(_, _)
Split(s, c) ==
    LET i == IndexOf(s, c)
    IN  IF i = 0 THEN <<s>>
        ELSE <<SubSeq(s, 1, i - 1)>> \o Split(SubSeq(s, i + 1, Len(s)), c)

\* "".join(parts)
RECURSIVE Join(_)
Join(parts) ==
    IF Len(parts) = 0 THEN <<>>
    ELSE IF Len(parts) = 1 THEN parts[1]
    ELSE LET h == Len(parts) \div 2
         IN  Join(SubSeq(parts, 1, h)) \o Join(SubSeq(parts, h + 1, Len(parts)))

UpperToLower ==
    [c \in {"A", "C", "G", "N", "O", "S", "X"} |->
        CASE c = "A" -> "a" [] c = "C" -> "c" [] c = "G" -> "g" [] c = "N" -> "n"
          [] c = "O" -> "o" [] c = "S" -> "s" [] c = "X" -> "x"]

\* s.lower(), over the upper-case letters the inputs use
Lower(s) ==
    [i \in 1..Len(s) |-> IF s[i] \in DOMAIN UpperToLower THEN UpperToLower[s[i]] ELSE s[i]]

\* the character class \d
IsDigit(c) == c \in {"0", "1", "2", "3", "4", "5", "6", "7", "8", "9"}

\* The percent escapes the inputs use, with the character each stands for.
HexChar ==
    [h \in {<<"3", "A">>, <<"2", "F">>, <<"3", "F">>, <<"3", "D">>,
            <<"2", "6">>, <<"2", "5">>, <<"2", "3">>, <<"2", "B">>, <<"2", "0">>} |->
        CASE h = <<"3", "A">> -> ":" [] h = <<"2", "F">> -> "/"
          [] h = <<"3", "F">> -> "?" [] h = <<"3", "D">> -> "="
          [] h = <<"2", "6">> -> "&" [] h = <<"2", "5">> -> "%"
          [] h = <<"2", "3">> -> "#" [] h = <<"2", "B">> -> "+"
          [] h = <<"2", "0">> -> " "]

\* urllib.parse.unquote: split on "%"; a piece that starts with two hex digits
\* has them replaced by the character, any other piece keeps its "%".
UnquotePiece(piece) ==
    IF Len(piece) >= 2 /\ <<piece[1], piece[2]>> \in DOMAIN HexChar
    THEN <<HexChar[<<piece[1], piece[2]>>]>> \o SubSeq(piece, 3, Len(piece))
    ELSE <<"%">> \o piece

unquote(s) ==
    LET bits == Split(s, "%")
    IN  bits[1] \o Join([k \in 1..(Len(bits) - 1) |-> UnquotePiece(bits[k + 1])])

\* urllib.parse.quote(s, safe=""): what a sender does to a destination URL
\* before it puts it in a query string.
quote(s) ==
    Join([i \in 1..Len(s) |->
            IF \E h \in DOMAIN HexChar : HexChar[h] = s[i]
            THEN LET h == CHOOSE h \in DOMAIN HexChar : HexChar[h] = s[i]
                 IN  <<"%", h[1], h[2]>>
            ELSE <<s[i]>>])

\* urlparse(url).query: the fragment is cut at the first "#", the query
\* starts after the first "?" of what is left.
Query(u) ==
    LET f == IndexOf(u, "#")
        noFrag == IF f = 0 THEN u ELSE SubSeq(u, 1, f - 1)
        q == IndexOf(noFrag, "?")
    IN  IF q = 0 THEN <<>> ELSE SubSeq(noFrag, q + 1, Len(noFrag))

\* str.replace("+", " ")
PlusToSpace(s) == [i \in 1..Len(s) |-> IF s[i] = "+" THEN " " ELSE s[i]]

\* urllib.parse.parse_qsl(qs): the (name, value) pairs of a query string, in
\* order; fields are separated by "&", split at their first "=", fields with
\* no "=" or a blank value are dropped, and name and value are decoded.
NameValue(field) ==
    LET e == IndexOf(field, "=")
    IN  <<unquote(PlusToSpace(SubSeq(field, 1, e - 1))),
          unquote(PlusToSpace(SubSeq(field, e + 1, Len(field))))>>

parse_qsl(qs) ==
    LET fields == Split(qs, "&")
        kept == SelectSeq(fields,
                    LAMBDA f : IndexOf(f, "=") # 0 /\ IndexOf(f, "=") < Len(f))
    IN  [k \in 1..Len(kept) |-> NameValue(kept[k])]

\* parse_qs(qs)[name]: the values of the fields called name, in order
parse_qs(qs, name) ==
    LET pairs == SelectSeq(parse_qsl(qs), LAMBDA p : p[1] = name)
    IN  [k \in 1..Len(pairs) |-> pairs[k][2]]

----------------------------------------------------------------------------
(* What a call does: it returns a value or raises an exception *)

Return(v) == [exc |-> "none", value |-> v]

Raise(e) == [exc |-> e, value |-> <<>>]

----------------------------------------------------------------------------
(* urllib.parse.urlparse *)

\* the characters a URL scheme is made of
SchemeChars ==
    {"a","b","c","d","e","f","g","h","i","j","k","l","m","n","o","p","q","r","s",
     "t","u","v","w","x","y","z","A","C","G","N","O","S","X",
     "0","1","2","3","4","5","6","7","8","9","+","-","."}

\* urlsplit: what is left of the URL once its scheme is cut off
AfterScheme(u) ==
    LET i == IndexOf(u, ":")
    IN  IF i > 1 /\ \A k \in 1..(i - 1) : u[k] \in SchemeChars
        THEN SubSeq(u, i + 1, Len(u))
        ELSE u

\* urlsplit: the network location, from the "//" to the next "/", "?" or "#"
Netloc(u) ==
    LET rest == AfterScheme(u)
    IN  IF Len(rest) >= 2 /\ rest[1] = "/" /\ rest[2] = "/"
        THEN LET ends == {k \in 3..Len(rest) : rest[k] \in {"/", "?", "#"}}
                 delim == IF ends = {} THEN Len(rest) + 1
                          ELSE CHOOSE m \in ends : \A n \in ends : m <= n
             IN  SubSeq(rest, 3, delim - 1)
        ELSE <<>>

\* urlsplit raises ValueError("Invalid IPv6 URL") when the network location
\* holds one square bracket without the other
UrlparseRaises(u) ==
    LET netloc == Netloc(u)
        open == \E k \in 1..Len(netloc) : netloc[k] = "["
        close == \E k \in 1..Len(netloc) : netloc[k] = "]"
    IN  open # close

----------------------------------------------------------------------------
(* GoogleScholarProcessor *)

SCHOLAR_URL_MARKER ==
    <<"s","c","h","o","l","a","r",".","g","o","o","g","l","e",".","c","o","m","/","s","c","h","o","l","a","r","_","u","r","l">>

URL_PARAM == <<"u","r","l">>

GoogleScholarCanProcess(u) == Contains(u, SCHOLAR_URL_MARKER)

\* the body of the try statement: urlparse, parse_qs, query_params["url"][0],
\* unquote; a URL with no "url" parameter falls through to `return url`
GoogleScholarTry(u) ==
    IF UrlparseRaises(u) THEN Raise("ValueError")
    ELSE LET values == parse_qs(Query(u), URL_PARAM)
         IN  IF Len(values) > 0 THEN Return(unquote(values[1])) ELSE Return(u)

\* process without its try statement
GoogleScholarProcessUncaught(u) == GoogleScholarTry(u)

\* GoogleScholarProcessor.process: `except Exception` logs and the method
\* returns the URL it was given
GoogleScholarProcess(u) ==
    LET r == GoogleScholarTry(u)
    IN  IF r.exc # "none" THEN Return(u) ELSE r

----------------------------------------------------------------------------
(* ArxivProcessor *)

ARXIV_DOMAIN == <<"a","r","x","i","v",".","o","r","g">>

ARXIV_ABS_BASE ==
    <<"h","t","t","p","s",":","/","/","a","r","x","i","v",".","o","r","g","/","a","b","s","/">>

\* ARXIV_ID_PATTERN matches at position i: \d{4}\.\d{4,5}
ArxivIdAt(s, i) ==
    /\ i + 8 <= Len(s)
    /\ \A k \in 0..3 : IsDigit(s[i + k])
    /\ s[i + 4] = "."
    /\ \A k \in 5..8 : IsDigit(s[i + k])

\* a pattern that asks for five digits after the dot: \d{4}\.\d{5}
ArxivIdSearchFiveDigits(s) ==
    LET starts == {i \in 1..Len(s) : ArxivIdAt(s, i) /\ i + 9 <= Len(s) /\ IsDigit(s[i + 9])}
    IN  IF starts = {} THEN <<>>
        ELSE LET i == CHOOSE m \in starts : \A n \in starts : m <= n
             IN  SubSeq(s, i, i + 9)

\* ARXIV_ID_PATTERN.search(s).group(1): the leftmost match, a fifth digit
\* taken when there is one; <<>> when there is no match.
ArxivIdSearch(s) ==
    LET starts == {i \in 1..Len(s) : ArxivIdAt(s, i)}
    IN  IF starts = {} THEN <<>>
        ELSE LET i == CHOOSE m \in starts : \A n \in starts : m <= n
                 last == IF i + 9 <= Len(s) /\ IsDigit(s[i + 9]) THEN i + 9 ELSE i + 8
             IN  SubSeq(s, i, last)

\* a can_process that looks for an identifier instead of the domain
ArxivCanProcessAnyId(u) == ArxivIdSearch(u) # <<>>

ArxivCanProcess(u) == Contains(Lower(u), ARXIV_DOMAIN)

PDF_VIEW == <<"/","p","d","f","/">>

\* the body of the try statement: a search of a str, a group and an f-string,
\* none of which raises
ArxivTry(u) ==
    LET arxiv_id == ArxivIdSearch(u)
    IN  IF arxiv_id = <<>> THEN Return(u) ELSE Return(ARXIV_ABS_BASE \o arxiv_id)

\* a process that rewrites only the URLs of the document view
ArxivProcessPdfOnly(u) ==
    IF Contains(u, PDF_VIEW) THEN ArxivTry(u) ELSE Return(u)

\* a process that builds the abstract URL whether or not it found an identifier
ArxivProcessAlwaysAbs(u) == Return(ARXIV_ABS_BASE \o ArxivIdSearch(u))

\* ArxivProcessor.process
ArxivProcess(u) ==
    LET r == ArxivTry(u)
    IN  IF r.exc # "none" THEN Return(u) ELSE r

----------------------------------------------------------------------------
(* URLProcessorChain *)

CanProcess(processor, u) ==
    IF processor = "GoogleScholarProcessor"
    THEN GoogleScholarCanProcess(u)
    ELSE ArxivCanProcess(u)

Process(processor, u) ==
    IF processor = "GoogleScholarProcessor"
    THEN GoogleScholarProcess(u)
    ELSE ArxivProcess(u)

\* the loop with every can_process asked of the URL the chain was given
RECURSIVE ChainFromOriginal(_, _, _)
ChainFromOriginal(processors, original_url, current_url) ==
    IF processors = <<>> THEN Return(current_url)
    ELSE LET processor == Head(processors)
             step == IF CanProcess(processor, original_url)
                     THEN Process(processor, current_url)
                     ELSE Return(current_url)
         IN  IF step.exc # "none" THEN step
             ELSE ChainFromOriginal(Tail(processors), original_url, step.value)

ChainProcessOnOriginal(processors, current_url) ==
    ChainFromOriginal(processors, current_url, current_url)

\* URLProcessorChain.process: each processor in order, applied when its
\* can_process holds of the current URL; the method has no try statement,
\* so an exception of a processor leaves the loop and the method.
RECURSIVE ChainProcess(_, _)
ChainProcess(processors, current_url) ==
    IF processors = <<>> THEN Return(current_url)
    ELSE LET processor == Head(processors)
             step == IF CanProcess(processor, current_url)
                     THEN Process(processor, current_url)
                     ELSE Return(current_url)
         IN  IF step.exc # "none" THEN step
             ELSE ChainProcess(Tail(processors), step.value)

default_processor_chain == <<"GoogleScholarProcessor", "ArxivProcessor">>

\* process_paper_url: default_processor_chain.process(url); the value is what
\* the call returns
process_paper_url(u) == ChainProcess(default_processor_chain, u).value

----------------------------------------------------------------------------
(* The URLs handed to the chain: a destination URL inside zero or more     *)
(* Google Scholar redirect wrappers.                                       *)

WRAPPER_HEAD ==
    <<"h","t","t","p","s",":","/","/","s","c","h","o","l","a","r",".","g","o","o","g","l","e",".","c","o","m","/","s","c","h","o","l","a","r","_","u","r","l","?">>
URL_EQ == <<"u","r","l","=">>
PRE_PARAMS == <<"h","l","=","z","h","-","C","N","&">>
POST_PARAMS ==
    <<"&","h","l","=","z","h","-","C","N","&","s","a","=","X","&","d","=","1","4","5","8","9","8","6","8","6","3","0","2","6","1","1","6","0","6","8","4">>
ARXIV_HOST == <<"h","t","t","p","s",":","/","/","a","r","x","i","v",".","o","r","g">>
ID_NEW == <<"2","4","0","1",".","1","2","3","4","5">>
ID_OLD == <<"1","3","1","2",".","6","1","1","4">>
VIEW_PDF == <<"/","p","d","f","/">>
VIEW_ABS == <<"/","a","b","s","/">>
SUFFIX_V2 == <<"v","2">>
SUFFIX_PDF == <<".","p","d","f">>
EXAMPLE_URL ==
    <<"h","t","t","p","s",":","/","/","e","x","a","m","p","l","e",".","c","o","m","/","p","a","p","e","r",".","p","d","f">>
LEGACY_URL ==
    <<"h","t","t","p","s",":","/","/","a","r","x","i","v",".","o","r","g","/","p","d","f","/","c","s","/","0","1","1","2","0","0","1">>
UPPER_URL ==
    <<"h","t","t","p",":","/","/","A","r","X","i","v",".","o","r","g","/","a","b","s","/","2","4","0","1",".","1","2","3","4","5","v","3">>

ArxivIds == {ID_NEW, ID_OLD}

\* an arXiv document-view or abstract-view URL for an identifier
ArxivUrl(id, view, suffix) == ARXIV_HOST \o view \o id \o suffix

ArxivDests ==
    [kind : {"arxiv"}, id : ArxivIds, view : {VIEW_PDF, VIEW_ABS},
     suffix : {<<>>, SUFFIX_V2, SUFFIX_PDF}]

OtherDests ==
    [kind : {"other"}, id : {EXAMPLE_URL, LEGACY_URL, UPPER_URL},
     view : {<<>>}, suffix : {<<>>}]

Dests == ArxivDests \cup OtherDests

DestUrl(d) == IF d.kind = "arxiv" THEN ArxivUrl(d.id, d.view, d.suffix) ELSE d.id

\* one redirect wrapper: the destination plain or percent-encoded, alone or
\* with further query parameters before or after it
Layers == [encoded : BOOLEAN, extra : {"none", "pre", "post"}]

Wrap(layer, dest) ==
    WRAPPER_HEAD
        \o (IF layer.extra = "pre" THEN PRE_PARAMS ELSE <<>>)
        \o URL_EQ
        \o (IF layer.encoded THEN quote(dest) ELSE dest)
        \o (IF layer.extra = "post" THEN POST_PARAMS ELSE <<>>)

\* layers[1] is the innermost wrapper
RECURSIVE WrapAll(_, _)
WrapAll(layers, dest) ==
    IF layers = <<>> THEN dest
    ELSE WrapAll(Tail(layers), Wrap(Head(layers), dest))

Inputs ==
    [dest : Dests, layers : UNION {[1..n -> Layers] : n \in 0..MaxNest}]

InputUrl(in) == WrapAll(in.layers, DestUrl(in.dest))

----------------------------------------------------------------------------
(* NonPaperLinkFilter *)

\* A pattern is a set of alternatives, each a sequence of character classes.
Lit(chars) == [k \in 1..Len(chars) |-> {chars[k]}]

\* re.search(pattern, s, re.IGNORECASE), for patterns written in lower case
re_search(pattern, s) ==
    LET low == Lower(s)
    IN  \E alt \in pattern :
            \E i \in 1..(Len(low) - Len(alt) + 1) :
                \A k \in 1..Len(alt) : low[i + k - 1] \in alt[k]

NON_PAPER_PATTERNS ==
    << {Lit(<<"s","c","h","o","l","a","r",".","g","o","o","g","l","e",".","c","o","m","/","c","i","t","a","t","i","o","n","s">>)},
       {Lit(<<"u","p","d","a","t","e","_","o","p","=">>)},
       {Lit(<<"c","i","t","s","i","g","=">>)},
       {Lit(<<"i","n","f","o","=">>)},
       {Lit(<<"s","c","h","o","l","a","r",".","g","o","o","g","l","e",".","c","o","m","/","s","c","h","o","l">>) \o <<{"?", "&"}>>},
       {Lit(<<"s","c","h","o","l","a","r",".","g","o","o","g","l","e",".","c","o","m","/","s","c","h","o","l","a","r","_","s","e","t","t","i","n","g","s">>)},
       {Lit(<<"s","c","h","o","l","a","r",".","g","o","o","g","l","e",".","c","o","m","/","c","i","t","a","t","i","o","n","s","?">>)} >>

PAPER_INDICATORS ==
    << {Lit(<<"s","c","h","o","l","a","r","_","u","r","l">>)},
       {Lit(<<"a","r","x","i","v",".","o","r","g","/","a","b","s","/">>), Lit(<<"a","r","x","i","v",".","o","r","g","/","p","d","f","/">>)} >>

MatchesAny(patterns, u) == \E k \in 1..Len(patterns) : re_search(patterns[k], u)

\* the inclusion list looked at first
should_keep_inclusion_first(u) ==
    IF MatchesAny(PAPER_INDICATORS, u) THEN TRUE
    ELSE IF MatchesAny(NON_PAPER_PATTERNS, u) THEN FALSE
    ELSE FALSE

\* a link that matches neither list kept
should_keep_default_allow(u) ==
    IF MatchesAny(NON_PAPER_PATTERNS, u) THEN FALSE
    ELSE IF MatchesAny(PAPER_INDICATORS, u) THEN TRUE
    ELSE TRUE

\* an exclusion match rejects; otherwise an inclusion match keeps; otherwise
\* the link is rejected
should_keep(u) ==
    IF MatchesAny(NON_PAPER_PATTERNS, u) THEN FALSE
    ELSE IF MatchesAny(PAPER_INDICATORS, u) THEN TRUE
    ELSE FALSE

----------------------------------------------------------------------------
(* The URLs handed to the filter: a page and its query parameters *)

PAGE_CITATIONS == <<"h","t","t","p","s",":","/","/","s","c","h","o","l","a","r",".","g","o","o","g","l","e",".","c","o","m","/","c","i","t","a","t","i","o","n","s">>
PAGE_SETTINGS == <<"h","t","t","p","s",":","/","/","s","c","h","o","l","a","r",".","g","o","o","g","l","e",".","c","o","m","/","s","c","h","o","l","a","r","_","s","e","t","t","i","n","g","s">>
PAGE_SEARCH == <<"h","t","t","p","s",":","/","/","s","c","h","o","l","a","r",".","g","o","o","g","l","e",".","c","o","m","/","s","c","h","o","l","a","r">>
PAGE_SEARCH_UPPER == <<"h","t","t","p","s",":","/","/","S","c","h","o","l","a","r",".","G","o","o","g","l","e",".","c","o","m","/","s","c","h","o","l","a","r">>
PAGE_REDIRECT == <<"h","t","t","p","s",":","/","/","s","c","h","o","l","a","r",".","g","o","o","g","l","e",".","c","o","m","/","s","c","h","o","l","a","r","_","u","r","l">>
PAGE_ARXIV_ABS == <<"h","t","t","p","s",":","/","/","a","r","x","i","v",".","o","r","g","/","a","b","s","/","2","4","0","1",".","1","2","3","4","5">>
PAGE_ARXIV_PDF == <<"h","t","t","p","s",":","/","/","A","r","X","i","v",".","o","r","g","/","p","d","f","/","2","4","0","1",".","1","2","3","4","5",".","p","d","f">>
PAGE_OTHER == <<"h","t","t","p","s",":","/","/","e","x","a","m","p","l","e",".","c","o","m","/","p","a","p","e","r",".","p","d","f">>

Q_HL == <<"h","l","=","z","h","-","C","N">>
Q_UPDATE_OP == <<"u","p","d","a","t","e","_","o","p","=","e","m","a","i","l","_","l","i","b","r","a","r","y","_","a","d","d">>
Q_INFO == <<"i","n","f","o","=","x","x","x">>
Q_CITSIG == <<"c","i","t","s","i","g","=","x","x","x">>
Q_SEARCH == <<"q","=","m","a","c","h","i","n","e","+","l","e","a","r","n","i","n","g">>
Q_SEARCH_ARXIV == <<"q","=","a","r","x","i","v",".","o","r","g","/","a","b","s","/","2","4","0","1",".","1","2","3","4","5">>
Q_URL == <<"u","r","l","=","h","t","t","p","s",":","/","/","a","r","x","i","v",".","o","r","g","/","p","d","f","/","2","4","0","1",".","1","2","3","4","5">>
Q_VIEW_OP == <<"v","i","e","w","_","o","p","=","v","i","e","w","_","c","i","t","a","t","i","o","n">>

Pages ==
    {PAGE_CITATIONS, PAGE_SETTINGS, PAGE_SEARCH, PAGE_SEARCH_UPPER, PAGE_REDIRECT,
     PAGE_ARXIV_ABS, PAGE_ARXIV_PDF, PAGE_OTHER}

QueryParams ==
    {Q_HL, Q_UPDATE_OP, Q_INFO, Q_CITSIG, Q_SEARCH, Q_SEARCH_ARXIV, Q_URL, Q_VIEW_OP}

FilterInputs ==
    [page : Pages, params : UNION {[1..n -> QueryParams] : n \in 0..MaxParams}]

\* page?p1&p2...
PageUrl(in) ==
    in.page \o Join([k \in 1..Len(in.params) |->
                        (IF k = 1 THEN <<"?">> ELSE <<"&">>) \o in.params[k]])

----------------------------------------------------------------------------
(* LinkExtractor *)

\* what URL_PATTERN's negated character class excludes: white space and
\* < > " { } | \ ^ [ ] (and the backquote, which no text of the model holds)
NonUrlChars ==
    {" ", "\t", "\n", "\r", "<", ">", "\"", "{", "}", "|", "\\", "^", "[", "]"}

HTTP_PREFIX == <<"h","t","t","p",":","/","/">>
HTTPS_PREFIX == <<"h","t","t","p","s",":","/","/">>

StartsAt(t, i, p) ==
    /\ i + Len(p) - 1 <= Len(t)
    /\ \A k \in 1..Len(p) : t[i + k - 1] = p[k]

\* where the body of a URL_PATTERN match at i starts: after https?://
\* (0 when the scheme does not match at i)
UrlBodyStart(t, i) ==
    IF StartsAt(t, i, HTTPS_PREFIX) THEN i + Len(HTTPS_PREFIX)
    ELSE IF StartsAt(t, i, HTTP_PREFIX) THEN i + Len(HTTP_PREFIX)
    ELSE 0

\* URL_PATTERN matches at i: the scheme and at least one body character
UrlAt(t, i) ==
    LET b == UrlBodyStart(t, i)
    IN  b # 0 /\ b <= Len(t) /\ t[b] \notin NonUrlChars

\* the last character of the (greedy) match at i
UrlEnd(t, i) ==
    LET stops == {j \in UrlBodyStart(t, i)..Len(t) : t[j] \in NonUrlChars}
    IN  IF stops = {} THEN Len(t)
        ELSE (CHOOSE j \in stops : \A n \in stops : j <= n) - 1

\* re.findall(URL_PATTERN, t[from:]): the non-overlapping matches, left to right
RECURSIVE FindAllFrom(_, _)
FindAllFrom(t, from) ==
    LET starts == {i \in from..Len(t) : UrlAt(t, i)}
    IN  IF starts = {} THEN <<>>
        ELSE LET i == CHOOSE m \in starts : \A n \in starts : m <= n
                 e == UrlEnd(t, i)
             IN  <<SubSeq(t, i, e)>> \o FindAllFrom(t, e + 1)

findall(t) == FindAllFrom(t, 1)

TRAILING_PUNCTUATION == {".", ",", ";", ":", "!", "?", ")"}

\* one trailing punctuation character removed, not all of them
rstrip_one(s) ==
    IF Len(s) > 0 /\ s[Len(s)] \in TRAILING_PUNCTUATION THEN SubSeq(s, 1, Len(s) - 1) ELSE s

\* s.rstrip(".,;:!?)")
rstrip(s) ==
    LET kept == {i \in 1..Len(s) : s[i] \notin TRAILING_PUNCTUATION}
    IN  IF kept = {} THEN <<>>
        ELSE SubSeq(s, 1, CHOOSE i \in kept : \A n \in kept : n <= i)

\* cleaned_urls: the set of the matches, each without its trailing punctuation
cleaned_urls(t) == LET urls == findall(t) IN {rstrip(urls[k]) : k \in 1..Len(urls)}

\* LinkFilter.should_keep of a configured filter: the NonPaperLinkFilter of
\* the source, or a caller's own LinkFilter (here one that keeps arXiv links only)
FilterShouldKeep(f, u) ==
    IF f = "NonPaperLinkFilter" THEN should_keep(u) ELSE Contains(u, ARXIV_DOMAIN)

\* LinkExtractor.__init__: filters or [NonPaperLinkFilter()]
ExtractorFilters(given) == IF given = <<>> THEN <<"NonPaperLinkFilter">> ELSE given

\* any(...) in place of all(...)
PassesAny(fs, u) == \E k \in 1..Len(fs) : FilterShouldKeep(fs[k], u)

\* all(f.should_keep(url) for f in self.filters)
PassesAll(fs, u) == \A k \in 1..Len(fs) : FilterShouldKeep(fs[k], u)

\* the URLs extract_links returns; the list holds them in the set's iteration order
filtered_urls(fs, t) == {u \in cleaned_urls(t) : PassesAll(fs, u)}

\* the lists that hold each element of S exactly once
Orderings(S) ==
    {f \in [1..Cardinality(S) -> S] : \A i, j \in 1..Cardinality(S) : f[i] = f[j] => i = j}

----------------------------------------------------------------------------
(* The texts handed to the extractor: links with surrounding prose *)

WRAPPED_ARXIV == <<"h","t","t","p","s",":","/","/","s","c","h","o","l","a","r",".","g","o","o","g","l","e",".","c","o","m","/","s","c","h","o","l","a","r","_","u","r","l","?","u","r","l","=","h","t","t","p","s",":","/","/","a","r","x","i","v",".","o","r","g","/","p","d","f","/","2","4","0","1",".","1","2","3","4","5">>
WRAPPED_OTHER == <<"h","t","t","p","s",":","/","/","s","c","h","o","l","a","r",".","g","o","o","g","l","e",".","c","o","m","/","s","c","h","o","l","a","r","_","u","r","l","?","h","l","=","z","h","-","C","N","&","u","r","l","=","h","t","t","p","s",":","/","/","e","x","a","m","p","l","e",".","c","o","m">>
CITATION_LINK == <<"h","t","t","p","s",":","/","/","s","c","h","o","l","a","r",".","g","o","o","g","l","e",".","c","o","m","/","c","i","t","a","t","i","o","n","s","?","u","p","d","a","t","e","_","o","p","=","e","m","a","i","l","_","l","i","b","r","a","r","y","_","a","d","d">>
DIRECT_ABS == <<"h","t","t","p","s",":","/","/","a","r","x","i","v",".","o","r","g","/","a","b","s","/","2","4","0","1",".","2","2","2","2","2">>

TextLinks == {WRAPPED_ARXIV, WRAPPED_OTHER, CITATION_LINK, DIRECT_ABS}

LEAD == <<"P","a","p","e","r",":"," ">>

\* what follows a link in the text
Endings == {<<" ">>, <<"."," ">>, <<")",".","<","b","r",">">>, <<"?","!"," ">>}

TextItems == [link : TextLinks, ending : Endings]

ItemLists == UNION {[1..n -> TextItems] : n \in 0..MaxItems}

TextOf(items) == Join([k \in 1..Len(items) |-> LEAD \o items[k].link \o items[k].ending])

----------------------------------------------------------------------------
(* GmailClient._extract_links *)

SCHOLAR_DOMAIN == <<"s","c","h","o","l","a","r",".","g","o","o","g","l","e",".","c","o","m">>

\* the matches of the URL pattern in order, each without its trailing
\* punctuation, kept when it names scholar.google.com or arxiv.org
_extract_links(t) ==
    LET urls == findall(t)
        cleaned == [k \in 1..Len(urls) |-> rstrip(urls[k])]
    IN  SelectSeq(cleaned,
            LAMBDA u : Contains(u, SCHOLAR_DOMAIN) \/ Contains(u, ARXIV_DOMAIN))

\* GmailClient._get_email_details: the dictionary built for message id
_get_email_details(id, body) == [id |-> id, body |-> body, links |-> _extract_links(body)]

----------------------------------------------------------------------------
(* main.get_unique_links *)

\* email.get("links", [])
EmailLinks(email) == IF "links" \in DOMAIN email THEN email.links ELSE <<>>

\* the links in visiting order: emails in list order, links in per-email order
Traversal(mails) == Join([k \in 1..Len(mails) |-> EmailLinks(mails[k])])

\* the loop body over the remaining links, with the seen set and the output so far
RECURSIVE UniqueFrom(_, _, _)
UniqueFrom(links_left, seen, out) ==
    IF links_left = <<>> THEN out
    ELSE LET processed_link == process_paper_url(Head(links_left))
         IN  IF processed_link \notin seen
             THEN UniqueFrom(Tail(links_left), seen \cup {processed_link},
                             Append(out, processed_link))
             ELSE UniqueFrom(Tail(links_left), seen, out)

\* the seen set keyed by the raw link, not by the normalised one
RECURSIVE UniqueFromRaw(_, _, _)
UniqueFromRaw(links_left, seen, out) ==
    IF links_left = <<>> THEN out
    ELSE IF Head(links_left) \notin seen
         THEN UniqueFromRaw(Tail(links_left), seen \cup {Head(links_left)},
                            Append(out, process_paper_url(Head(links_left))))
         ELSE UniqueFromRaw(Tail(links_left), seen, out)

get_unique_links_raw_key(mails) == UniqueFromRaw(Traversal(mails), {}, <<>>)

\* the emails visited last to first
get_unique_links_reversed(mails) ==
    UniqueFrom(Traversal([k \in 1..Len(mails) |-> mails[Len(mails) + 1 - k]]), {}, <<>>)

get_unique_links(mails) == UniqueFrom(Traversal(mails), {}, <<>>)

----------------------------------------------------------------------------
(* The email lists handed to get_unique_links *)

DIRECT_PDF == <<"h","t","t","p","s",":","/","/","a","r","x","i","v",".","o","r","g","/","p","d","f","/","2","4","0","1",".","1","2","3","4","5",".","p","d","f">>
WRAPPED_PDF == <<"h","t","t","p","s",":","/","/","s","c","h","o","l","a","r",".","g","o","o","g","l","e",".","c","o","m","/","s","c","h","o","l","a","r","_","u","r","l","?","u","r","l","=","h","t","t","p","s",":","/","/","a","r","x","i","v",".","o","r","g","/","p","d","f","/","2","4","0","1",".","1","2","3","4","5",".","p","d","f","&","h","l","=","z","h","-","C","N">>
CANONICAL_ABS == <<"h","t","t","p","s",":","/","/","a","r","x","i","v",".","o","r","g","/","a","b","s","/","2","4","0","1",".","1","2","3","4","5">>

RawLinks == {DIRECT_PDF, WRAPPED_PDF, DIRECT_ABS, EXAMPLE_URL}

LinkLists == UNION {[1..n -> RawLinks] : n \in 0..MaxLinks}

\* no email, one email, or two emails that share the links between them
EmailLists(all) ==
    {<<>>, <<[id |-> "m1", links |-> all]>>}
        \cup {<<[id |-> "m1", links |-> SubSeq(all, 1, cut)],
                [id |-> "m2", links |-> SubSeq(all, cut + 1, Len(all))]>> :
                 cut \in 0..Len(all)}

----------------------------------------------------------------------------
(* The mailbox main reads: message bodies with links in them *)

BodyLinks == {WRAPPED_ARXIV, CITATION_LINK, DIRECT_PDF, EXAMPLE_URL}

BodyLinkLists == UNION {[1..n -> BodyLinks] : n \in 0..MaxBodyLinks}

BodyOf(ls) == Join([k \in 1..Len(ls) |-> LEAD \o ls[k] \o <<".", " ">>])

\* no message, one message, or two messages that share the links between them
Mailboxes(all) ==
    {<<>>, <<BodyOf(all)>>}
        \cup {<<BodyOf(SubSeq(all, 1, cut)), BodyOf(SubSeq(all, cut + 1, Len(all)))>> :
                 cut \in 0..Len(all)}

----------------------------------------------------------------------------
(* The URLs handed to a single processor or to a chain of processors       *)

\* longest list of processors a URLProcessorChain is built with
MaxChain == 2

ALPHAXIV_HOST == <<"h","t","t","p","s",":","/","/","w","w","w",".","a","l","p","h","a","x","i","v",".","o","r","g">>
UPPER_HOST == <<"h","t","t","p",":","/","/","A","r","X","i","v",".","o","r","g">>
SUFFIX_V2_PDF == <<"v","2",".","p","d","f">>
LEGACY_HEP_URL == <<"h","t","t","p","s",":","/","/","a","r","x","i","v",".","o","r","g","/","a","b","s","/","h","e","p","-","t","h","/","9","9","0","1","0","0","1","v","1">>
CLUSTER_URL == <<"h","t","t","p","s",":","/","/","s","c","h","o","l","a","r",".","g","o","o","g","l","e",".","c","o","m","/","s","c","h","o","l","a","r","?","c","l","u","s","t","e","r","=","1","2","3">>
ESCAPED_URL == <<"h","t","t","p","s",":","/","/","e","x","a","m","p","l","e",".","c","o","m","/","a","%","2","0","b">>
BAD_WRAPPER_HEAD == <<"h","t","t","p",":","/","/","[","s","c","h","o","l","a","r",".","g","o","o","g","l","e",".","c","o","m","/","s","c","h","o","l","a","r","_","u","r","l","?">>
HL_PARAM == <<"h","l","=","z","h","-","C","N">>
Q_EQ == <<"&","q","=">>
URL_BLANK == <<"u","r","l","=">>
UPPER_URL_EQ == <<"U","R","L","=">>
REF_PARAM == <<"&","r","e","f","=","a","r","x","i","v",".","o","r","g">>

\* a destination: a document or abstract view of an identifier on arxiv.org,
\* on arxiv.org spelt with capitals or on another site, or a URL that holds
\* no identifier
ProcArxivDests ==
    [kind : {"arxiv"}, site : {ARXIV_HOST, UPPER_HOST, ALPHAXIV_HOST}, id : ArxivIds,
     view : {VIEW_PDF, VIEW_ABS}, suffix : {<<>>, SUFFIX_V2, SUFFIX_PDF, SUFFIX_V2_PDF}]

ProcOtherDests ==
    [kind : {"other"}, site : {<<>>},
     id : {EXAMPLE_URL, LEGACY_URL, LEGACY_HEP_URL, CLUSTER_URL, ESCAPED_URL},
     view : {<<>>}, suffix : {<<>>}]

ProcDests == ProcArxivDests \cup ProcOtherDests

ProcDestUrl(d) ==
    IF d.kind = "arxiv" THEN d.site \o d.view \o d.id \o d.suffix ELSE d.id

\* how the destination reaches the processor: as it is, or inside a redirect
\* wrapper that carries it plain, percent-encoded, after or before other
\* parameters, behind a host that does not parse, under another parameter
\* name, after a blank url parameter, or before a parameter naming arxiv.org
ProcWraps ==
    {"none", "plain", "encoded", "pre", "post", "badhost", "noparam", "blank",
     "upper", "ref"}

ProcWrap(wrap, dest) ==
    CASE wrap = "none" -> dest
      [] wrap = "plain" -> WRAPPER_HEAD \o URL_EQ \o dest
      [] wrap = "encoded" -> WRAPPER_HEAD \o URL_EQ \o quote(dest)
      [] wrap = "pre" -> WRAPPER_HEAD \o PRE_PARAMS \o URL_EQ \o dest
      [] wrap = "post" -> WRAPPER_HEAD \o URL_EQ \o dest \o POST_PARAMS
      [] wrap = "badhost" -> BAD_WRAPPER_HEAD \o URL_EQ \o dest
      [] wrap = "noparam" -> WRAPPER_HEAD \o HL_PARAM \o Q_EQ \o dest
      [] wrap = "blank" -> WRAPPER_HEAD \o URL_BLANK \o Q_EQ \o dest
      [] wrap = "upper" -> WRAPPER_HEAD \o UPPER_URL_EQ \o dest
      [] wrap = "ref" -> WRAPPER_HEAD \o URL_EQ \o dest \o REF_PARAM

ProcInputs == [dest : ProcDests, wrap : ProcWraps]

ProcUrl(in) == ProcWrap(in.wrap, ProcDestUrl(in.dest))

Processors == {"GoogleScholarProcessor", "ArxivProcessor"}

\* the processor lists a chain is built with
Chains == UNION {[1..n -> Processors] : n \in 0..MaxChain}

----------------------------------------------------------------------------
(* A link filter with pattern lists of the caller's own: a subclass or an   *)
(* instance of NonPaperLinkFilter whose NON_PAPER_PATTERNS and              *)
(* PAPER_INDICATORS are replaced                                            *)

\* longest pattern list a caller configures
MaxPatterns == 2

\* a pattern string that compiles, and one that does not (such as "(")
Compiles(pattern) == [ok |-> TRUE, re |-> pattern]
INVALID_PATTERN == [ok |-> FALSE, re |-> {}]

\* the lists of the class itself
ClassFilter ==
    [NON_PAPER_PATTERNS |-> [k \in 1..Len(NON_PAPER_PATTERNS) |-> Compiles(NON_PAPER_PATTERNS[k])],
     PAPER_INDICATORS |-> [k \in 1..Len(PAPER_INDICATORS) |-> Compiles(PAPER_INDICATORS[k])]]

ExclusionChoices == {Compiles(NON_PAPER_PATTERNS[1]), Compiles(NON_PAPER_PATTERNS[4]), INVALID_PATTERN}
InclusionChoices == {Compiles(PAPER_INDICATORS[1]), Compiles(PAPER_INDICATORS[2]), INVALID_PATTERN}

CustomFilters ==
    [NON_PAPER_PATTERNS : UNION {[1..n -> ExclusionChoices] : n \in 0..MaxPatterns},
     PAPER_INDICATORS : UNION {[1..n -> InclusionChoices] : n \in 0..MaxPatterns}]

ConfiguredFilters == CustomFilters \cup {ClassFilter}

\* `for pattern in patterns: if re.search(pattern, url, re.IGNORECASE)`:
\* the loop stops at the first pattern that matches, or at the first pattern
\* that does not compile, where re.search raises re.error
SearchList(patterns, u) ==
    LET stops == {k \in 1..Len(patterns) :
                     ~patterns[k].ok \/ re_search(patterns[k].re, u)}
    IN  IF stops = {} THEN "none"
        ELSE LET k == CHOOSE m \in stops : \A n \in stops : m <= n
             IN  IF patterns[k].ok THEN "match" ELSE "error"

\* NonPaperLinkFilter.should_keep over the lists of the instance
should_keep_of(filter, u) ==
    LET excluded == SearchList(filter.NON_PAPER_PATTERNS, u)
        included == SearchList(filter.PAPER_INDICATORS, u)
    IN  IF excluded = "error" THEN Raise("re.error")
        ELSE IF excluded = "match" THEN Return(FALSE)
        ELSE IF included = "error" THEN Raise("re.error")
        ELSE IF included = "match" THEN Return(TRUE)
        ELSE Return(FALSE)

\* LinkExtractor([filter]).extract_links(text): should_keep is asked of every
\* cleaned URL, and what it raises leaves extract_links
extract_links_of(filter, t) ==
    IF \E u \in cleaned_urls(t) : should_keep_of(filter, u).exc # "none"
    THEN Raise("re.error")
    ELSE Return({u \in cleaned_urls(t) : should_keep_of(filter, u).value})

\* NonPaperLinkFilter has no __init__ and LinkExtractor.__init__ only stores
\* the list: constructing them looks at no pattern and raises nothing
construct_of(filter) == "none"

CfgUrls == {WRAPPED_ARXIV, CITATION_LINK, DIRECT_ABS, EXAMPLE_URL}

\* a sentence around the URL
SentenceOf(u) == LEAD \o u \o <<".", " ">>

----------------------------------------------------------------------------
(* SimpleHTMLFetcher *)

\* largest retry_times a fetcher is constructed with
MaxRetry == 3

\* a can_fetch that accepts every URL
can_fetch_any(u) == TRUE

\* can_fetch: "scholar.google.com" in url or "arxiv.org" in url
can_fetch(u) == Contains(u, SCHOLAR_DOMAIN) \/ Contains(u, ARXIV_DOMAIN)

\* a loop that makes one attempt more than retry_times
AttemptsLeftInclusive(attempt, retry_times) == attempt <= retry_times

\* `for attempt in range(self.retry_times)`: the loop body runs for attempt
AttemptsLeft(attempt, retry_times) == attempt < retry_times

\* a _parse_html that keeps the URL the caller passed to fetch
ParsePageOfInput(titled, u) ==
    IF (Contains(u, SCHOLAR_DOMAIN) \/ Contains(u, ARXIV_DOMAIN)) /\ titled
    THEN Return([url |-> hurl, title |-> "title"])
    ELSE Raise("PaperFetchError")

\* _parse_html on a page: the parser is chosen by the URL, and a page with no
\* title, or a URL of neither site, raises PaperFetchError
_parse_html(titled, u) ==
    IF (Contains(u, SCHOLAR_DOMAIN) \/ Contains(u, ARXIV_DOMAIN)) /\ titled
    THEN Return([url |-> u, title |-> "title"])
    ELSE Raise("PaperFetchError")

FetchUrls ==
    {CLUSTER_URL, DIRECT_ABS, DIRECT_PDF, WRAPPED_ARXIV, WRAPPED_OTHER, EXAMPLE_URL, UPPER_URL}

----------------------------------------------------------------------------
(* PaperSummarizer over a fetcher and an LLM provider *)

\* longest URL list handed to process_urls
MaxUrls == 3

\* Python's None; a result dict is a record with other fields
None == [none |-> TRUE]

\* what the collaborators do for one URL: both succeed, the fetcher raises
\* PaperFetchError or another Exception, or the provider raises LLMError or
\* another Exception
Fates == {"ok", "fetch_error", "fetch_other", "llm_error", "llm_other"}

\* self.fetcher.fetch(url)
FetcherFetch(u, fate) ==
    IF fate = "fetch_error" THEN Raise("PaperFetchError")
    ELSE IF fate = "fetch_other" THEN Raise("Exception")
    ELSE Return([title |-> <<"Paper", u>>, url |-> u])

\* self.llm_provider.summarize(paper_info.title, paper_info.abstract)
ProviderSummarize(title, fate) ==
    IF fate = "llm_error" THEN Raise("LLMError")
    ELSE IF fate = "llm_other" THEN Raise("Exception")
    ELSE Return([summary |-> <<"Summary of", title>>])

\* the body of the try statement of process_url, with the calls it makes of
\* the fetcher and of the provider
ProcessUrlTry(u, fate) ==
    LET paper_info == FetcherFetch(u, fate)
    IN  IF paper_info.exc # "none"
        THEN [outcome |-> paper_info, fetched |-> <<u>>, summarized |-> <<>>]
        ELSE LET summary == ProviderSummarize(paper_info.value.title, fate)
             IN  [outcome |-> IF summary.exc # "none" THEN summary
                              ELSE Return([url |-> paper_info.value.url,
                                           title |-> paper_info.value.title,
                                           summary |-> summary.value.summary]),
                  fetched |-> <<u>>,
                  summarized |-> <<paper_info.value.title>>]

\* a process_url that handles PaperFetchError and LLMError only
process_url_named_errors_only(u, fate) ==
    LET t == ProcessUrlTry(u, fate)
    IN  IF t.outcome.exc \in {"PaperFetchError", "LLMError"}
        THEN [t EXCEPT !.outcome = Return(None)]
        ELSE t

\* PaperSummarizer.process_url: the three except clauses return None
process_url(u, fate) ==
    LET t == ProcessUrlTry(u, fate)
    IN  IF t.outcome.exc \in {"PaperFetchError", "LLMError", "Exception"}
        THEN [t EXCEPT !.outcome = Return(None)]
        ELSE t

\* `if result:` of a dict or None
Truthy(r) == r # None

\* a loop that stops at the first URL that fails
RECURSIVE UrlsUntilFailure(_, _, _)
UrlsUntilFailure(urls, fates, done) ==
    IF urls = <<>> THEN done
    ELSE LET r == process_url(Head(urls), Head(fates))
             now == [outcome |-> Return(done.outcome.value),
                     fetched |-> done.fetched \o r.fetched,
                     summarized |-> done.summarized \o r.summarized]
         IN  IF r.outcome.exc # "none" THEN [now EXCEPT !.outcome = r.outcome]
             ELSE IF ~Truthy(r.outcome.value) THEN now
             ELSE UrlsUntilFailure(Tail(urls), Tail(fates),
                      [now EXCEPT !.outcome = Return(Append(done.outcome.value, r.outcome.value))])

process_urls_until_failure(urls, fates) ==
    UrlsUntilFailure(urls, fates,
        [outcome |-> Return(<<>>), fetched |-> <<>>, summarized |-> <<>>])

\* the loop of process_urls from some URL on: process_url, then append when
\* the result is truthy
RECURSIVE UrlsFrom(_, _, _)
UrlsFrom(urls, fates, done) ==
    IF urls = <<>> THEN done
    ELSE LET r == process_url(Head(urls), Head(fates))
             now == [outcome |-> Return(done.outcome.value),
                     fetched |-> done.fetched \o r.fetched,
                     summarized |-> done.summarized \o r.summarized]
         IN  IF r.outcome.exc # "none" THEN [now EXCEPT !.outcome = r.outcome]
             ELSE UrlsFrom(Tail(urls), Tail(fates),
                      IF Truthy(r.outcome.value)
                      THEN [now EXCEPT !.outcome = Return(Append(done.outcome.value, r.outcome.value))]
                      ELSE now)

\* PaperSummarizer.process_urls
process_urls(urls, fates) ==
    UrlsFrom(urls, fates,
        [outcome |-> Return(<<>>), fetched |-> <<>>, summarized |-> <<>>])

SumUrls == {"https://arxiv.org/abs/1", "https://arxiv.org/abs/2"}

----------------------------------------------------------------------------
(* Configuration: Config, Config.from_env and load_config *)

\* The settings of Config, written section_key. timeout_sec and temperature
\* are floats; the model holds them in tenths (30.0 is 300, 0.3 is 3).
Settings ==
    {"gmail_label", "gmail_unread_only", "gmail_mark_as_read", "gmail_max_emails",
     "gmail_days_back", "fetcher_type", "fetcher_timeout_sec", "fetcher_retry_times",
     "llm_provider", "llm_temperature"}

\* Config(): the defaults of the dataclasses
ConfigDefaults ==
    [gmail_label |-> "scholar", gmail_unread_only |-> TRUE, gmail_mark_as_read |-> TRUE,
     gmail_max_emails |-> 50, gmail_days_back |-> 7, fetcher_type |-> "simple_html",
     fetcher_timeout_sec |-> 300, fetcher_retry_times |-> 3, llm_provider |-> "openai",
     llm_temperature |-> 3]

\* Config._from_dict: data.get(key, default) for every setting
_from_dict(data) ==
    [k \in Settings |-> IF k \in DOMAIN data THEN data[k] ELSE ConfigDefaults[k]]

\* os.getenv of a variable that is not set gives None
NOT_SET == "None"

\* `if value:` of what os.getenv gave
EnvGiven(v) == v # NOT_SET /\ v # ""

\* int(text) of the decimal texts the model uses; any other text raises
\* ValueError
IntTexts == [t \in {"3", "7", "20", "50"} |->
                CASE t = "3" -> 3 [] t = "7" -> 7 [] t = "20" -> 20 [] t = "50" -> 50]

IntOf(t) == IF t \in DOMAIN IntTexts THEN Return(IntTexts[t]) ELSE Raise("ValueError")

\* float(text), in tenths
FloatTexts == [t \in {"30", "30.0", "45.0", "0.3", "0.7"} |->
                  CASE t = "30" -> 300 [] t = "30.0" -> 300 [] t = "45.0" -> 450
                    [] t = "0.3" -> 3 [] t = "0.7" -> 7]

FloatOf(t) == IF t \in DOMAIN FloatTexts THEN Return(FloatTexts[t]) ELSE Raise("ValueError")

\* text.lower() == "true"
LowerIsTrue(t) == t \in {"true", "True", "TRUE"}

\* Config.from_env: every variable that is given replaces the default of its
\* setting; int() and float() may raise ValueError
from_env(env) ==
    LET max_emails == IntOf(env.GMAIL_MAX_EMAILS)
        days_back == IntOf(env.GMAIL_DAYS_BACK)
        timeout == FloatOf(env.FETCHER_TIMEOUT)
        temperature == FloatOf(env.LLM_TEMPERATURE)
    IN  IF \/ EnvGiven(env.GMAIL_MAX_EMAILS) /\ max_emails.exc # "none"
           \/ EnvGiven(env.GMAIL_DAYS_BACK) /\ days_back.exc # "none"
           \/ EnvGiven(env.FETCHER_TIMEOUT) /\ timeout.exc # "none"
           \/ EnvGiven(env.LLM_TEMPERATURE) /\ temperature.exc # "none"
        THEN Raise("ValueError")
        ELSE Return(
            [ConfigDefaults EXCEPT
                !.gmail_label = IF EnvGiven(env.GMAIL_LABEL) THEN env.GMAIL_LABEL ELSE @,
                !.gmail_unread_only = IF EnvGiven(env.GMAIL_UNREAD_ONLY)
                                      THEN LowerIsTrue(env.GMAIL_UNREAD_ONLY) ELSE @,
                !.gmail_max_emails = IF EnvGiven(env.GMAIL_MAX_EMAILS) THEN max_emails.value ELSE @,
                !.gmail_days_back = IF EnvGiven(env.GMAIL_DAYS_BACK) THEN days_back.value ELSE @,
                !.fetcher_type = IF EnvGiven(env.FETCHER_TYPE) THEN env.FETCHER_TYPE ELSE @,
                !.fetcher_timeout_sec = IF EnvGiven(env.FETCHER_TIMEOUT) THEN timeout.value ELSE @,
                !.llm_provider = IF EnvGiven(env.LLM_PROVIDER) THEN env.LLM_PROVIDER ELSE @,
                !.llm_temperature = IF EnvGiven(env.LLM_TEMPERATURE) THEN temperature.value ELSE @])

\* _merge_configs: a setting of override replaces that of base when it
\* differs from the value the function compares it with
_merge_configs(base, override) ==
    [base EXCEPT
        !.gmail_label = IF override.gmail_label # "Scholar Alerts" THEN override.gmail_label ELSE @,
        !.gmail_unread_only = IF ~override.gmail_unread_only THEN override.gmail_unread_only ELSE @,
        !.gmail_max_emails = IF override.gmail_max_emails # 50 THEN override.gmail_max_emails ELSE @,
        !.fetcher_type = IF override.fetcher_type # "simple_html" THEN override.fetcher_type ELSE @,
        !.fetcher_timeout_sec = IF override.fetcher_timeout_sec # 300
                                THEN override.fetcher_timeout_sec ELSE @,
        !.llm_provider = IF override.llm_provider # "openai" THEN override.llm_provider ELSE @,
        !.llm_temperature = IF override.llm_temperature # 3 THEN override.llm_temperature ELSE @]

\* load_config: the YAML file if it exists, Config() otherwise, merged with
\* Config.from_env()
load_config(file, env) ==
    LET config == IF file.exists THEN _from_dict(file.data) ELSE ConfigDefaults
        env_config == from_env(env)
    IN  IF env_config.exc # "none" THEN env_config
        ELSE Return(_merge_configs(config, env_config.value))

\* the YAML files of the model: none, an empty one, one that gives only
\* gmail.label, and one that gives every setting a value of its own
YamlFiles ==
    {[exists |-> FALSE, data |-> <<>>],
     [exists |-> TRUE, data |-> <<>>],
     [exists |-> TRUE, data |-> [gmail_label |-> "papers"]],
     [exists |-> TRUE, data |->
        [gmail_label |-> "inbox", gmail_unread_only |-> FALSE, gmail_mark_as_read |-> FALSE,
         gmail_max_emails |-> 20, gmail_days_back |-> 3, fetcher_type |-> "docling",
         fetcher_timeout_sec |-> 450, fetcher_retry_times |-> 5, llm_provider |-> "gemini",
         llm_temperature |-> 7]]}

\* the environments of the model: every variable is not set, set to the
\* default of its setting, or set to another value
Environments ==
    [GMAIL_LABEL : {NOT_SET, "scholar", "Scholar Alerts", "papers"},
     GMAIL_UNREAD_ONLY : {NOT_SET, "True", "false"},
     GMAIL_MAX_EMAILS : {NOT_SET, "50", "20", "many"},
     GMAIL_DAYS_BACK : {NOT_SET, "7", "3"},
     FETCHER_TYPE : {NOT_SET, "simple_html", "docling"},
     FETCHER_TIMEOUT : {NOT_SET, "30", "45.0"},
     LLM_PROVIDER : {NOT_SET, "openai", "gemini"},
     LLM_TEMPERATURE : {NOT_SET, "0.3", "0.7"}]

----------------------------------------------------------------------------
(* GmailClient.mark_as_read and batch_mark_as_read *)

\* longest list of message ids handed to batch_mark_as_read
MaxIds == 3

\* what messages().modify(...).execute() does for one message: it returns,
\* raises HttpError, or raises an error of the transport underneath
ApiFates == {"ok", "HttpError", "TransportError"}

\* GmailClient.mark_as_read: HttpError becomes GmailClientError, any other
\* exception passes through
mark_as_read(message_id, fate) ==
    IF fate = "ok" THEN Return(None)
    ELSE IF fate = "HttpError" THEN Raise("GmailClientError")
    ELSE Raise(fate)

\* a loop that gives up at the first message that fails
RECURSIVE MarkUntilFailure(_, _, _)
MarkUntilFailure(ids, fates, done) ==
    IF ids = <<>> THEN done
    ELSE LET r == mark_as_read(Head(ids), Head(fates))
             now == [done EXCEPT !.attempted = Append(@, Head(ids))]
         IN  IF r.exc = "GmailClientError"
             THEN [now EXCEPT !.logged = Append(@, Head(ids))]
             ELSE IF r.exc # "none" THEN [now EXCEPT !.outcome = r]
             ELSE MarkUntilFailure(Tail(ids), Tail(fates), now)

batch_mark_until_failure(message_ids, fates) ==
    MarkUntilFailure(message_ids, fates,
        [outcome |-> Return(None), attempted |-> <<>>, logged |-> <<>>])

\* the loop of batch_mark_as_read from some id on: mark_as_read, and
\* GmailClientError is logged
RECURSIVE MarkFrom(_, _, _)
MarkFrom(ids, fates, done) ==
    IF ids = <<>> THEN done
    ELSE LET r == mark_as_read(Head(ids), Head(fates))
             now == [done EXCEPT !.attempted = Append(@, Head(ids))]
         IN  IF r.exc = "GmailClientError"
             THEN MarkFrom(Tail(ids), Tail(fates), [now EXCEPT !.logged = Append(@, Head(ids))])
             ELSE IF r.exc # "none" THEN [now EXCEPT !.outcome = r]
             ELSE MarkFrom(Tail(ids), Tail(fates), now)

\* GmailClient.batch_mark_as_read
batch_mark_as_read(message_ids, fates) ==
    MarkFrom(message_ids, fates,
        [outcome |-> Return(None), attempted |-> <<>>, logged |-> <<>>])

MessageIds == {"msg1", "msg2"}

----------------------------------------------------------------------------
(* PaperSummarizer.__init__ and the default collaborators *)

\* OpenAIProvider(): the key is read from the environment, and float() and
\* int() of LLM_TEMPERATURE and LLM_MAX_TOKENS may raise ValueError
OpenAIProviderNew(env) ==
    IF \/ env.LLM_TEMPERATURE # NOT_SET /\ FloatOf(env.LLM_TEMPERATURE).exc # "none"
       \/ env.LLM_MAX_TOKENS # NOT_SET /\ IntOf(env.LLM_MAX_TOKENS).exc # "none"
    THEN Raise("ValueError")
    ELSE Return([class |-> "OpenAIProvider", api_key |-> env.OPENAI_API_KEY])

\* is_available() of a provider: OpenAIProvider has a key that is not None
\* and not empty; a provider of the caller answers as it was set up
is_available(provider) ==
    IF provider.class = "OpenAIProvider"
    THEN provider.api_key # NOT_SET /\ provider.api_key # ""
    ELSE provider.available

\* a constructor that does not ask the provider
PaperSummarizerUnchecked(fetcher, llm_provider, env) ==
    LET made == IF llm_provider # None THEN Return(llm_provider) ELSE OpenAIProviderNew(env)
    IN  IF made.exc # "none" THEN made
        ELSE Return([fetcher |-> IF fetcher # None THEN fetcher
                                 ELSE [class |-> "SimpleHTMLFetcher"],
                     llm_provider |-> made.value])

\* PaperSummarizer.__init__: `fetcher or SimpleHTMLFetcher()`,
\* `llm_provider or OpenAIProvider()`, then SummarizerError unless the
\* provider is available
PaperSummarizerNew(fetcher, llm_provider, env) ==
    LET made == IF llm_provider # None THEN Return(llm_provider) ELSE OpenAIProviderNew(env)
    IN  IF made.exc # "none" THEN made
        ELSE IF ~is_available(made.value) THEN Raise("SummarizerError")
        ELSE Return([fetcher |-> IF fetcher # None THEN fetcher
                                 ELSE [class |-> "SimpleHTMLFetcher"],
                     llm_provider |-> made.value])

\* the arguments and environments of the model
FetcherArguments == {None, [class |-> "Mock", name |-> "mock_fetcher"]}

ProviderArguments ==
    {None} \cup {[class |-> "Mock", available |-> a] : a \in BOOLEAN}

ProviderEnvironments ==
    [OPENAI_API_KEY : {NOT_SET, "", "sk-xxx"},
     LLM_TEMPERATURE : {NOT_SET, "0.3", "hot"},
     LLM_MAX_TOKENS : {NOT_SET, "50", "lots"}]

----------------------------------------------------------------------------
(* The optional collaborators: DoclingFetcher and GeminiProvider *)

OptionalLibraries == {"docling", "google.generativeai"}

\* _check_docling / _check_genai: the import succeeds or raises ImportError
CheckImport(library, installed) == library \in installed

\* DoclingFetcher.__init__
DoclingFetcherNew(installed) ==
    [class |-> "DoclingFetcher", _docling_available |-> CheckImport("docling", installed)]

DOI_DOMAIN == <<"d","o","i",".","o","r","g">>
PLAIN_URL == <<"h","t","t","p","s",":","/","/","e","x","a","m","p","l","e",".","c","o","m","/","p","a","p","e","r">>
DOI_URL == <<"h","t","t","p","s",":","/","/","d","o","i",".","o","r","g","/","1","0",".","1","0","0","0","/","1","8","2">>

\* DoclingFetcher.can_fetch
DoclingCanFetch(self, u) ==
    IF ~self._docling_available THEN FALSE
    ELSE \E x \in {SCHOLAR_DOMAIN, ARXIV_DOMAIN, SUFFIX_PDF, DOI_DOMAIN} : Contains(u, x)

\* DoclingFetcher.fetch: both paths raise PaperFetchError
DoclingFetch(self, u) ==
    IF ~self._docling_available THEN Raise("PaperFetchError")
    ELSE Raise("PaperFetchError")

\* GeminiProvider.__init__: float() and int() of LLM_TEMPERATURE and
\* LLM_MAX_TOKENS may raise ValueError
GeminiProviderNew(env, installed) ==
    IF \/ env.LLM_TEMPERATURE # NOT_SET /\ FloatOf(env.LLM_TEMPERATURE).exc # "none"
       \/ env.LLM_MAX_TOKENS # NOT_SET /\ IntOf(env.LLM_MAX_TOKENS).exc # "none"
    THEN Raise("ValueError")
    ELSE Return([class |-> "GeminiProvider", api_key |-> env.GEMINI_API_KEY,
                 _genai_available |-> CheckImport("google.generativeai", installed)])

\* an is_available that looks at the key only
GeminiHasKey(self) == self.api_key # NOT_SET /\ self.api_key # ""

\* GeminiProvider.is_available
GeminiIsAvailable(self) ==
    IF ~self._genai_available THEN FALSE
    ELSE self.api_key # NOT_SET /\ self.api_key # ""

\* GeminiProvider.summarize
GeminiSummarize(self, title) == Raise("LLMError")

StubUrls == {DIRECT_ABS, EXAMPLE_URL, DOI_URL, PLAIN_URL, CLUSTER_URL}

GeminiEnvironments ==
    [GEMINI_API_KEY : {NOT_SET, "", "key"},
     LLM_TEMPERATURE : {NOT_SET, "0.3", "hot"},
     LLM_MAX_TOKENS : {NOT_SET, "50"}]

----------------------------------------------------------------------------
(* main: the stages of one run *)

\* most unread emails, and most links, of a run
MaxUnread == 2

\* a main whose try statement handles GmailClientError and SummarizerError
\* only
ExceptNamedErrorsOnly(exc) ==
    IF exc \in {"GmailClientError", "SummarizerError"} THEN Return(1) ELSE Raise(exc)

\* the except clauses of main: GmailClientError, SummarizerError and
\* Exception all return 1
Except(exc) ==
    IF exc = "GmailClientError" THEN Return(1)
    ELSE IF exc = "SummarizerError" THEN Return(1)
    ELSE Return(1)

\* a stage raised exc inside the try statement
StageRaises(exc) ==
    /\ rraised' = exc
    /\ routcome' = Except(exc)
    /\ rpc' = "exit"

\* main returns code from inside the try statement
Returns(code) ==
    /\ routcome' = Return(code)
    /\ rpc' = "exit"
    /\ UNCHANGED rraised

\* the stage is over and main goes on
GoesOn(stage) ==
    /\ rpc' = stage
    /\ UNCHANGED <<rraised, routcome>>

----------------------------------------------------------------------------
(* The parts of the state a specification leaves alone *)

ChainIdle ==
    input = "none" /\ url = <<>> /\ result = <<>> /\ again = <<>> /\ pc = "idle"

FilterIdle ==
    finput = "none" /\ furl = <<>> /\ keep = FALSE /\ fpc = "idle"

ExtractIdle ==
    titems = <<>> /\ text = <<>> /\ filters = <<>> /\ links = <<>> /\ epc = "idle"

DedupIdle ==
    demails = <<>> /\ dunique = <<>> /\ dpc = "idle"

MainIdle ==
    /\ mailbox = <<>> /\ emails = <<>> /\ unique_links = <<>>
    /\ mpc = "idle" /\ exit_code = "none"

ProcIdle ==
    /\ pinput = "none" /\ purl = <<>> /\ pchain = <<>> /\ pcall = "none"
    /\ poutcome = Return(<<>>) /\ ppc = "idle"

CfgIdle ==
    /\ cfilter = "none" /\ curl = <<>> /\ cbuilt = "none" /\ ccall = "none"
    /\ coutcome = Return(<<>>) /\ cpc = "idle"

FetchIdle ==
    /\ hurl = <<>> /\ hretry = 0 /\ hprocessed = <<>> /\ hattempt = 0
    /\ hlog = <<>> /\ hslept = <<>> /\ hrequested = <<>>
    /\ houtcome = Return(<<>>) /\ hpc = "idle"

SumIdle ==
    /\ surls = <<>> /\ sfates = <<>> /\ scall = "none" /\ sfetched = <<>>
    /\ ssummarized = <<>> /\ sresult = Return(<<>>) /\ spc = "idle"

LoadIdle ==
    /\ lfile = [exists |-> FALSE, data |-> <<>>] /\ lenv = <<>>
    /\ loutcome = Return(<<>>) /\ lpc = "idle"

MarkIdle ==
    /\ bids = <<>> /\ bfates = <<>> /\ battempted = <<>> /\ blogged = <<>>
    /\ boutcome = Return(<<>>) /\ bpc = "idle"

NewIdle ==
    /\ nfetcher = None /\ nprovider = None /\ nenv = <<>>
    /\ noutcome = Return(<<>>) /\ npc = "idle"

StubIdle ==
    /\ xinstalled = {} /\ xenv = <<>> /\ xbuilt = <<>> /\ xfetcher = None /\ xprovider = None
    /\ xcall = "idle" /\ xoutcome = Return(<<>>)

RunIdle ==
    /\ rargs = <<>> /\ renv = <<>> /\ rconfig = <<>> /\ remails = 0 /\ rlinks = 0 /\ rpapers = 0
    /\ rcalls = <<>> /\ rprinted = FALSE /\ rraised = "none" /\ routcome = Return(<<>>) /\ rpc = "idle"

\* every group but the one a specification is about is left alone
IdleBut(group) ==
    /\ IF group = "chain" THEN TRUE ELSE ChainIdle
    /\ IF group = "filter" THEN TRUE ELSE FilterIdle
    /\ IF group = "extract" THEN TRUE ELSE ExtractIdle
    /\ IF group = "dedup" THEN TRUE ELSE DedupIdle
    /\ IF group = "main" THEN TRUE ELSE MainIdle
    /\ IF group = "proc" THEN TRUE ELSE ProcIdle
    /\ IF group = "cfg" THEN TRUE ELSE CfgIdle
    /\ IF group = "fetch" THEN TRUE ELSE FetchIdle
    /\ IF group = "sum" THEN TRUE ELSE SumIdle
    /\ IF group = "load" THEN TRUE ELSE LoadIdle
    /\ IF group = "mark" THEN TRUE ELSE MarkIdle
    /\ IF group = "new" THEN TRUE ELSE NewIdle
    /\ IF group = "stub" THEN TRUE ELSE StubIdle
    /\ IF group = "run" THEN TRUE ELSE RunIdle

----------------------------------------------------------------------------
(* A caller that normalises a URL, then normalises the result again *)

InitChain ==
    /\ input \in Inputs
    /\ url = InputUrl(input)
    /\ result = <<>>
    /\ again = <<>>
    /\ pc = "input"
    /\ IdleBut("chain")

ProcessPaperUrl ==
    /\ pc = "input"
    /\ result' = process_paper_url(url)
    /\ pc' = "once"
    /\ UNCHANGED <<input, url, again, notChain>>

ProcessPaperUrlAgain ==
    /\ pc = "once"
    /\ again' = process_paper_url(result)
    /\ pc' = "twice"
    /\ UNCHANGED <<input, url, result, notChain>>

NextChain == ProcessPaperUrl \/ ProcessPaperUrlAgain

SpecChain == InitChain /\ [][NextChain]_vars

----------------------------------------------------------------------------
(* A caller that asks the filter about one URL *)

InitFilter ==
    /\ finput \in FilterInputs
    /\ furl = PageUrl(finput)
    /\ keep = FALSE
    /\ fpc = "url"
    /\ IdleBut("filter")

ShouldKeep ==
    /\ fpc = "url"
    /\ keep' = should_keep(furl)
    /\ fpc' = "done"
    /\ UNCHANGED <<finput, furl, notFilter>>

NextFilter == ShouldKeep

SpecFilter == InitFilter /\ [][NextFilter]_vars

----------------------------------------------------------------------------
(* A caller that constructs a LinkExtractor and extracts the links of a text *)

InitExtract ==
    /\ titems \in ItemLists
    /\ text = TextOf(titems)
    /\ filters \in {<<>>, <<"NonPaperLinkFilter", "ArxivOnlyFilter">>}
    /\ links = <<>>
    /\ epc = "text"
    /\ IdleBut("extract")

\* LinkExtractor(filters).extract_links(text)
ExtractLinks ==
    /\ epc = "text"
    /\ links' \in Orderings(filtered_urls(ExtractorFilters(filters), text))
    /\ epc' = "done"
    /\ UNCHANGED <<titems, text, filters, notExtract>>

NextExtract == ExtractLinks

SpecExtract == InitExtract /\ [][NextExtract]_vars

----------------------------------------------------------------------------
(* A caller of get_unique_links *)

InitDedup ==
    /\ \E all \in LinkLists : demails \in EmailLists(all)
    /\ dunique = <<>>
    /\ dpc = "emails"
    /\ IdleBut("dedup")

GetUniqueLinksOf ==
    /\ dpc = "emails"
    /\ dunique' = get_unique_links(demails)
    /\ dpc' = "done"
    /\ UNCHANGED <<demails, notDedup>>

NextDedup == GetUniqueLinksOf

SpecDedup == InitDedup /\ [][NextDedup]_vars

----------------------------------------------------------------------------
(* main: from the unread messages to the unique links *)

InitMain ==
    /\ \E all \in BodyLinkLists : mailbox \in Mailboxes(all)
    /\ emails = <<>>
    /\ unique_links = <<>>
    /\ mpc = "start"
    /\ exit_code = "none"
    /\ IdleBut("main")

\* gmail_client.get_unread_scholar_emails: the listing fails with an HttpError
\* (GmailClientError, main returns 1), or every message whose details can be
\* read becomes an email, in listing order
GetUnreadScholarEmails ==
    /\ mpc = "start"
    /\ \/ /\ mpc' = "exit"
          /\ exit_code' = 1
          /\ UNCHANGED emails
       \/ \E readable \in SUBSET (1..Len(mailbox)) :
            LET ids == SelectSeq([k \in 1..Len(mailbox) |-> k], LAMBDA k : k \in readable)
            IN  /\ emails' = [j \in 1..Len(ids) |->
                                 _get_email_details(ids[j], mailbox[ids[j]])]
                /\ mpc' = "emails"
                /\ UNCHANGED exit_code
    /\ UNCHANGED <<mailbox, unique_links, notMain>>

\* if not emails: return 0
NoEmails ==
    /\ mpc = "emails"
    /\ emails = <<>>
    /\ mpc' = "exit"
    /\ exit_code' = 0
    /\ UNCHANGED <<mailbox, emails, unique_links, notMain>>

\* unique_links = get_unique_links(emails)
GetUniqueLinks ==
    /\ mpc = "emails"
    /\ emails # <<>>
    /\ unique_links' = get_unique_links(emails)
    /\ mpc' = "links"
    /\ UNCHANGED <<mailbox, emails, exit_code, notMain>>

\* if not unique_links: return 0
NoLinks ==
    /\ mpc = "links"
    /\ unique_links = <<>>
    /\ mpc' = "exit"
    /\ exit_code' = 0
    /\ UNCHANGED <<mailbox, emails, unique_links, notMain>>

NextMain == GetUnreadScholarEmails \/ NoEmails \/ GetUniqueLinks \/ NoLinks

SpecMain == InitMain /\ [][NextMain]_vars

----------------------------------------------------------------------------
(* A caller of one processor, of a chain it built, or of process_paper_url *)

InitProc ==
    /\ pinput \in ProcInputs
    /\ purl = ProcUrl(pinput)
    /\ pchain \in Chains
    /\ pcall = "none"
    /\ poutcome = Return(<<>>)
    /\ ppc = "input"
    /\ IdleBut("proc")

\* GoogleScholarProcessor().process(url)
GoogleScholarProcessorProcess ==
    /\ ppc = "input"
    /\ poutcome' = GoogleScholarProcess(purl)
    /\ pcall' = "GoogleScholarProcessor.process"
    /\ ppc' = "done"
    /\ UNCHANGED <<pinput, purl, pchain, notProc>>

\* ArxivProcessor().process(url)
ArxivProcessorProcess ==
    /\ ppc = "input"
    /\ poutcome' = ArxivProcess(purl)
    /\ pcall' = "ArxivProcessor.process"
    /\ ppc' = "done"
    /\ UNCHANGED <<pinput, purl, pchain, notProc>>

\* URLProcessorChain(processors).process(url)
URLProcessorChainProcess ==
    /\ ppc = "input"
    /\ poutcome' = ChainProcess(pchain, purl)
    /\ pcall' = "URLProcessorChain.process"
    /\ ppc' = "done"
    /\ UNCHANGED <<pinput, purl, pchain, notProc>>

\* process_paper_url(url)
ProcessPaperUrlOf ==
    /\ ppc = "input"
    /\ poutcome' = ChainProcess(default_processor_chain, purl)
    /\ pcall' = "process_paper_url"
    /\ ppc' = "done"
    /\ UNCHANGED <<pinput, purl, pchain, notProc>>

NextProc ==
    \/ GoogleScholarProcessorProcess
    \/ ArxivProcessorProcess
    \/ URLProcessorChainProcess
    \/ ProcessPaperUrlOf

SpecProc == InitProc /\ [][NextProc]_vars

----------------------------------------------------------------------------
(* A caller that configures a link filter, constructs it and a              *)
(* LinkExtractor over it, and then uses them on a URL                       *)

InitCfg ==
    /\ cfilter \in ConfiguredFilters
    /\ curl \in CfgUrls
    /\ cbuilt = "none"
    /\ ccall = "none"
    /\ coutcome = Return(<<>>)
    /\ cpc = "configured"
    /\ IdleBut("cfg")

\* f = Filter(); extractor = LinkExtractor([f])
ConstructFilter ==
    /\ cpc = "configured"
    /\ cbuilt' = construct_of(cfilter)
    /\ cpc' = IF cbuilt' = "none" THEN "constructed" ELSE "failed"
    /\ UNCHANGED <<cfilter, curl, ccall, coutcome, notCfg>>

\* f.should_keep(url)
FilterShouldKeepUrl ==
    /\ cpc = "constructed"
    /\ coutcome' = should_keep_of(cfilter, curl)
    /\ ccall' = "should_keep"
    /\ cpc' = "asked"
    /\ UNCHANGED <<cfilter, curl, cbuilt, notCfg>>

\* extractor.extract_links(text)
ExtractLinksWithFilter ==
    /\ cpc = "constructed"
    /\ coutcome' = extract_links_of(cfilter, SentenceOf(curl))
    /\ ccall' = "extract_links"
    /\ cpc' = "asked"
    /\ UNCHANGED <<cfilter, curl, cbuilt, notCfg>>

NextCfg == ConstructFilter \/ FilterShouldKeepUrl \/ ExtractLinksWithFilter

SpecCfg == InitCfg /\ [][NextCfg]_vars

----------------------------------------------------------------------------
(* One call of SimpleHTMLFetcher.fetch; the network answers each GET *)

InitFetch ==
    /\ hurl \in FetchUrls
    /\ hretry \in 0..MaxRetry
    /\ hprocessed = <<>>
    /\ hattempt = 0
    /\ hlog = <<>>
    /\ hslept = <<>>
    /\ hrequested = <<>>
    /\ houtcome = Return(<<>>)
    /\ hpc = "call"
    /\ IdleBut("fetch")

\* if not self.can_fetch(url): raise PaperFetchError
FetchUnsupported ==
    /\ hpc = "call"
    /\ ~can_fetch(hurl)
    /\ houtcome' = Raise("PaperFetchError")
    /\ hpc' = "done"
    /\ UNCHANGED <<hurl, hretry, hprocessed, hattempt, hlog, hslept, hrequested, notFetch>>

\* processed_url = self.url_processor.process(url), then the loop is entered
FetchSupported ==
    /\ hpc = "call"
    /\ can_fetch(hurl)
    /\ LET processed == ChainProcess(default_processor_chain, hurl)
       IN  IF processed.exc = "none"
           THEN /\ hprocessed' = processed.value
                /\ hpc' = "loop"
                /\ UNCHANGED houtcome
           ELSE /\ houtcome' = processed
                /\ hpc' = "done"
                /\ UNCHANGED hprocessed
    /\ UNCHANGED <<hurl, hretry, hattempt, hlog, hslept, hrequested, notFetch>>

\* session.get raises requests.Timeout: the attempt is logged, the call
\* sleeps 1 * (attempt + 1) seconds and the loop goes on
GetTimesOut ==
    /\ hpc = "loop"
    /\ AttemptsLeft(hattempt, hretry)
    /\ hlog' = Append(hlog, "timeout")
    /\ hslept' = Append(hslept, 1 * (hattempt + 1))
    /\ hrequested' = Append(hrequested, hprocessed)
    /\ hattempt' = hattempt + 1
    /\ UNCHANGED <<hurl, hretry, hprocessed, houtcome, hpc, notFetch>>

\* a loop that retries after any request failure
GetFailsAndRetries ==
    /\ hpc = "loop"
    /\ AttemptsLeft(hattempt, hretry)
    /\ \E failure \in {"connection", "status"} : hlog' = Append(hlog, failure)
    /\ hrequested' = Append(hrequested, hprocessed)
    /\ hslept' = Append(hslept, 1 * (hattempt + 1))
    /\ hattempt' = hattempt + 1
    /\ UNCHANGED <<hurl, hretry, hprocessed, houtcome, hpc, notFetch>>

\* session.get or raise_for_status raises another requests.RequestException:
\* fetch raises PaperFetchError
GetFails ==
    /\ hpc = "loop"
    /\ AttemptsLeft(hattempt, hretry)
    /\ \E failure \in {"connection", "status"} : hlog' = Append(hlog, failure)
    /\ hrequested' = Append(hrequested, hprocessed)
    /\ houtcome' = Raise("PaperFetchError")
    /\ hpc' = "done"
    /\ UNCHANGED <<hurl, hretry, hprocessed, hattempt, hslept, notFetch>>

\* session.get returns a page: fetch returns what _parse_html makes of it
GetPage ==
    /\ hpc = "loop"
    /\ AttemptsLeft(hattempt, hretry)
    /\ \E titled \in BOOLEAN :
          /\ hlog' = Append(hlog, IF titled THEN "page" ELSE "untitled")
          /\ houtcome' = _parse_html(titled, hprocessed)
    /\ hrequested' = Append(hrequested, hprocessed)
    /\ hpc' = "done"
    /\ UNCHANGED <<hurl, hretry, hprocessed, hattempt, hslept, notFetch>>

\* the loop is over: raise PaperFetchError
RetriesExhausted ==
    /\ hpc = "loop"
    /\ ~AttemptsLeft(hattempt, hretry)
    /\ houtcome' = Raise("PaperFetchError")
    /\ hpc' = "done"
    /\ UNCHANGED <<hurl, hretry, hprocessed, hattempt, hlog, hslept, hrequested, notFetch>>

NextFetch ==
    \/ FetchUnsupported
    \/ FetchSupported
    \/ GetTimesOut
    \/ GetFails
    \/ GetPage
    \/ RetriesExhausted

SpecFetch == InitFetch /\ [][NextFetch]_vars

----------------------------------------------------------------------------
(* A caller of PaperSummarizer.process_url or process_urls *)

InitSum ==
    /\ \E n \in 0..MaxUrls : surls \in [1..n -> SumUrls] /\ sfates \in [1..n -> Fates]
    /\ scall = "none"
    /\ sfetched = <<>>
    /\ ssummarized = <<>>
    /\ sresult = Return(<<>>)
    /\ spc = "input"
    /\ IdleBut("sum")

\* summarizer.process_url(urls[0])
ProcessUrl ==
    /\ spc = "input"
    /\ surls # <<>>
    /\ LET r == process_url(surls[1], sfates[1])
       IN  /\ sresult' = r.outcome
           /\ sfetched' = r.fetched
           /\ ssummarized' = r.summarized
    /\ scall' = "process_url"
    /\ spc' = "done"
    /\ UNCHANGED <<surls, sfates, notSum>>

\* summarizer.process_urls(urls)
ProcessUrls ==
    /\ spc = "input"
    /\ LET r == process_urls(surls, sfates)
       IN  /\ sresult' = r.outcome
           /\ sfetched' = r.fetched
           /\ ssummarized' = r.summarized
    /\ scall' = "process_urls"
    /\ spc' = "done"
    /\ UNCHANGED <<surls, sfates, notSum>>

NextSum == ProcessUrl \/ ProcessUrls

SpecSum == InitSum /\ [][NextSum]_vars

----------------------------------------------------------------------------
(* One call of load_config *)

InitLoad ==
    /\ lfile \in YamlFiles
    /\ lenv \in Environments
    /\ loutcome = Return(<<>>)
    /\ lpc = "call"
    /\ IdleBut("load")

\* config = load_config(args.config)
LoadConfig ==
    /\ lpc = "call"
    /\ loutcome' = load_config(lfile, lenv)
    /\ lpc' = "done"
    /\ UNCHANGED <<lfile, lenv, notLoad>>

NextLoad == LoadConfig

SpecLoad == InitLoad /\ [][NextLoad]_vars

----------------------------------------------------------------------------
(* One call of GmailClient.batch_mark_as_read or mark_as_read *)

InitMark ==
    /\ \E n \in 0..MaxIds : bids \in [1..n -> MessageIds] /\ bfates \in [1..n -> ApiFates]
    /\ battempted = <<>>
    /\ blogged = <<>>
    /\ boutcome = Return(<<>>)
    /\ bpc = "call"
    /\ IdleBut("mark")

\* client.batch_mark_as_read(message_ids)
BatchMarkAsRead ==
    /\ bpc = "call"
    /\ LET r == batch_mark_as_read(bids, bfates)
       IN  /\ boutcome' = r.outcome
           /\ battempted' = r.attempted
           /\ blogged' = r.logged
    /\ bpc' = "batch done"
    /\ UNCHANGED <<bids, bfates, notMark>>

\* client.mark_as_read(message_ids[0])
MarkAsRead ==
    /\ bpc = "call"
    /\ bids # <<>>
    /\ boutcome' = mark_as_read(bids[1], bfates[1])
    /\ battempted' = <<bids[1]>>
    /\ bpc' = "single done"
    /\ UNCHANGED <<bids, bfates, blogged, notMark>>

NextMark == BatchMarkAsRead \/ MarkAsRead

SpecMark == InitMark /\ [][NextMark]_vars

----------------------------------------------------------------------------
(* One construction of a PaperSummarizer *)

InitNew ==
    /\ nfetcher \in FetcherArguments
    /\ nprovider \in ProviderArguments
    /\ nenv \in ProviderEnvironments
    /\ noutcome = Return(<<>>)
    /\ npc = "call"
    /\ IdleBut("new")

\* PaperSummarizer(fetcher=..., llm_provider=...)
ConstructSummarizer ==
    /\ npc = "call"
    /\ noutcome' = PaperSummarizerNew(nfetcher, nprovider, nenv)
    /\ npc' = "done"
    /\ UNCHANGED <<nfetcher, nprovider, nenv, notNew>>

NextNew == ConstructSummarizer

SpecNew == InitNew /\ [][NextNew]_vars

----------------------------------------------------------------------------
(* A process that constructs the optional collaborators and calls them *)

InitStub ==
    /\ xinstalled \in SUBSET OptionalLibraries
    /\ xenv \in GeminiEnvironments
    /\ xbuilt = [fetcher |-> {}, provider |-> {}]
    /\ xfetcher = None
    /\ xprovider = None
    /\ xcall = "none"
    /\ xoutcome = Return(<<>>)
    /\ IdleBut("stub")

\* a library is installed while the process runs; once it can be imported it
\* stays importable
InstallLibrary ==
    /\ \E library \in OptionalLibraries \ xinstalled : xinstalled' = xinstalled \cup {library}
    /\ UNCHANGED <<xenv, xbuilt, xfetcher, xprovider, xcall, xoutcome, notStub>>

\* fetcher = DoclingFetcher()
ConstructDoclingFetcher ==
    /\ xfetcher = None
    /\ xfetcher' = DoclingFetcherNew(xinstalled)
    /\ xbuilt' = [xbuilt EXCEPT !.fetcher = xinstalled]
    /\ xcall' = "DoclingFetcher"
    /\ xoutcome' = Return(<<>>)
    /\ UNCHANGED <<xinstalled, xenv, xprovider, notStub>>

\* provider = GeminiProvider()
ConstructGeminiProvider ==
    /\ xprovider = None
    /\ LET made == GeminiProviderNew(xenv, xinstalled)
       IN  /\ xprovider' = IF made.exc = "none" THEN made.value ELSE None
           /\ xoutcome' = IF made.exc = "none" THEN Return(<<>>) ELSE made
    /\ xbuilt' = [xbuilt EXCEPT !.provider = xinstalled]
    /\ xcall' = "GeminiProvider"
    /\ UNCHANGED <<xinstalled, xenv, xfetcher, notStub>>

\* fetcher.can_fetch(url)
CallDoclingCanFetch ==
    /\ xfetcher # None
    /\ \E u \in StubUrls : xoutcome' = Return(DoclingCanFetch(xfetcher, u))
    /\ xcall' = "DoclingFetcher.can_fetch"
    /\ UNCHANGED <<xinstalled, xenv, xbuilt, xfetcher, xprovider, notStub>>

\* fetcher.fetch(url)
CallDoclingFetch ==
    /\ xfetcher # None
    /\ \E u \in StubUrls : xoutcome' = DoclingFetch(xfetcher, u)
    /\ xcall' = "DoclingFetcher.fetch"
    /\ UNCHANGED <<xinstalled, xenv, xbuilt, xfetcher, xprovider, notStub>>

\* provider.is_available()
CallGeminiIsAvailable ==
    /\ xprovider # None
    /\ xoutcome' = Return(GeminiIsAvailable(xprovider))
    /\ xcall' = "GeminiProvider.is_available"
    /\ UNCHANGED <<xinstalled, xenv, xbuilt, xfetcher, xprovider, notStub>>

\* provider.summarize(title, abstract)
CallGeminiSummarize ==
    /\ xprovider # None
    /\ xoutcome' = GeminiSummarize(xprovider, "title")
    /\ xcall' = "GeminiProvider.summarize"
    /\ UNCHANGED <<xinstalled, xenv, xbuilt, xfetcher, xprovider, notStub>>

NextStub ==
    \/ InstallLibrary
    \/ ConstructDoclingFetcher
    \/ ConstructGeminiProvider
    \/ CallDoclingCanFetch
    \/ CallDoclingFetch
    \/ CallGeminiIsAvailable
    \/ CallGeminiSummarize

SpecStub == InitStub /\ [][NextStub]_vars

----------------------------------------------------------------------------
(* One run of main *)

InitRun ==
    /\ rargs \in [dry_run : BOOLEAN]
    /\ renv \in [RECIPIENT_EMAIL : {NOT_SET, "", "me@example.com"}]
    /\ rconfig = [mark_as_read |-> TRUE]
    /\ remails = 0
    /\ rlinks = 0
    /\ rpapers = 0
    /\ rcalls = <<>>
    /\ rprinted = FALSE
    /\ rraised = "none"
    /\ routcome = Return(<<>>)
    /\ rpc = "start"
    /\ IdleBut("run")

\* config = load_config(args.config); decode_credentials()
RunLoadConfig ==
    /\ rpc = "start"
    /\ \/ /\ \E mark \in BOOLEAN : rconfig' = [mark_as_read |-> mark]
          /\ GoesOn("configured")
       \/ /\ \E exc \in {"ValueError", "binascii.Error"} : StageRaises(exc)
          /\ UNCHANGED rconfig
    /\ UNCHANGED <<rargs, renv, remails, rlinks, rpapers, rcalls, rprinted, notRun>>

\* gmail_client = GmailClient(); emails = get_unread_scholar_emails(...)
RunGetEmails ==
    /\ rpc = "configured"
    /\ \/ /\ \E n \in 0..MaxUnread : remails' = n
          /\ GoesOn("emails")
       \/ /\ StageRaises("GmailClientError")
          /\ UNCHANGED remails
    /\ UNCHANGED <<rargs, renv, rconfig, rlinks, rpapers, rcalls, rprinted, notRun>>

\* if not emails: return 0
RunNoEmails ==
    /\ rpc = "emails"
    /\ remails = 0
    /\ Returns(0)
    /\ UNCHANGED <<rargs, renv, rconfig, remails, rlinks, rpapers, rcalls, rprinted, notRun>>

\* unique_links = get_unique_links(emails)
RunGetUniqueLinks ==
    /\ rpc = "emails"
    /\ remails # 0
    /\ \E n \in 0..MaxUnread : rlinks' = n
    /\ GoesOn("links")
    /\ UNCHANGED <<rargs, renv, rconfig, remails, rpapers, rcalls, rprinted, notRun>>

\* if not unique_links: return 0
RunNoLinks ==
    /\ rpc = "links"
    /\ rlinks = 0
    /\ Returns(0)
    /\ UNCHANGED <<rargs, renv, rconfig, remails, rlinks, rpapers, rcalls, rprinted, notRun>>

\* summarizer = PaperSummarizer(...); papers = summarizer.process_urls(...)
RunProcessUrls ==
    /\ rpc = "links"
    /\ rlinks # 0
    /\ \/ /\ \E n \in 0..rlinks : rpapers' = n
          /\ GoesOn("papers")
       \/ /\ \E exc \in {"SummarizerError", "ValueError"} : StageRaises(exc)
          /\ UNCHANGED rpapers
    /\ UNCHANGED <<rargs, renv, rconfig, remails, rlinks, rcalls, rprinted, notRun>>

\* if not papers: return 0
RunNoPapers ==
    /\ rpc = "papers"
    /\ rpapers = 0
    /\ Returns(0)
    /\ UNCHANGED <<rargs, renv, rconfig, remails, rlinks, rpapers, rcalls, rprinted, notRun>>

\* report = generator.generate_html(papers) or generate_markdown(papers)
RunGenerateReport ==
    /\ rpc = "papers"
    /\ rpapers # 0
    /\ \/ GoesOn("report")
       \/ StageRaises("TemplateError")
    /\ UNCHANGED <<rargs, renv, rconfig, remails, rlinks, rpapers, rcalls, rprinted, notRun>>

\* the else branch of `if not args.dry_run`: print the report, return 0
RunDryRun ==
    /\ rpc = "report"
    /\ rargs.dry_run
    /\ rprinted' = TRUE
    /\ Returns(0)
    /\ UNCHANGED <<rargs, renv, rconfig, remails, rlinks, rpapers, rcalls, notRun>>

\* if not recipient: return 1
RunNoRecipient ==
    /\ rpc = "report"
    /\ ~rargs.dry_run
    /\ ~EnvGiven(renv.RECIPIENT_EMAIL)
    /\ Returns(1)
    /\ UNCHANGED <<rargs, renv, rconfig, remails, rlinks, rpapers, rcalls, rprinted, notRun>>

\* a send_email whose failure is logged and passed over
RunSendEmailAnyway ==
    /\ rpc = "report"
    /\ ~rargs.dry_run
    /\ EnvGiven(renv.RECIPIENT_EMAIL)
    /\ \E answer \in {"send_email", "send_email raised"} : rcalls' = Append(rcalls, answer)
    /\ GoesOn("sent")
    /\ UNCHANGED <<rargs, renv, rconfig, remails, rlinks, rpapers, rprinted, notRun>>

\* subject = subject_template.format(date=date_str); gmail_client.send_email(...)
RunSendEmail ==
    /\ rpc = "report"
    /\ ~rargs.dry_run
    /\ EnvGiven(renv.RECIPIENT_EMAIL)
    /\ \/ /\ rcalls' = Append(rcalls, "send_email")
          /\ GoesOn("sent")
       \/ /\ rcalls' = Append(rcalls, "send_email raised")
          /\ \E exc \in {"GmailClientError", "TransportError"} : StageRaises(exc)
       \/ /\ StageRaises("KeyError")
          /\ UNCHANGED rcalls
    /\ UNCHANGED <<rargs, renv, rconfig, remails, rlinks, rpapers, rprinted, notRun>>

\* if config.gmail.mark_as_read: gmail_client.batch_mark_as_read(message_ids);
\* return 0
RunMarkAsRead ==
    /\ rpc = "sent"
    /\ IF rconfig.mark_as_read
       THEN \/ /\ rcalls' = Append(rcalls, "batch_mark_as_read")
               /\ Returns(0)
            \/ /\ rcalls' = Append(rcalls, "batch_mark_as_read raised")
               /\ StageRaises("TransportError")
       ELSE /\ Returns(0)
            /\ UNCHANGED rcalls
    /\ UNCHANGED <<rargs, renv, rconfig, remails, rlinks, rpapers, rprinted, notRun>>

NextRun ==
    \/ RunLoadConfig
    \/ RunGetEmails
    \/ RunNoEmails
    \/ RunGetUniqueLinks
    \/ RunNoLinks
    \/ RunProcessUrls
    \/ RunNoPapers
    \/ RunGenerateReport
    \/ RunDryRun
    \/ RunNoRecipient
    \/ RunSendEmail
    \/ RunMarkAsRead

SpecRun == InitRun /\ [][NextRun]_vars

----------------------------------------------------------------------------
(* Claims about the URL processor chain, checked under SpecChain *)

\* C1: normalisation is idempotent: normalising the result of
\* process_paper_url again gives the same URL, for every URL, a redirect
\* wrapper around another redirect wrapper included.
C1_Idempotent == pc = "twice" => again = result

\* C4: chain composition: a Google Scholar redirect URL whose url parameter
\* is an arXiv /pdf/ or /abs/ URL for an identifier (plain or percent-encoded,
\* with or without further query parameters) is normalised to exactly
\* https://arxiv.org/abs/<id>.
C4_ChainComposition ==
    (pc # "input" /\ input.dest.kind = "arxiv" /\ Len(input.layers) = 1)
        => result = ARXIV_ABS_BASE \o input.dest.id

\* C4's case: a percent-encoded /pdf/ link with a .pdf extension, wrapped with
\* further query parameters, has been normalised to the abstract view
C4_Witness ==
    /\ pc = "once"
    /\ input.dest.kind = "arxiv" /\ input.dest.view = VIEW_PDF
    /\ input.dest.suffix = SUFFIX_PDF
    /\ Len(input.layers) = 1
    /\ input.layers[1].encoded /\ input.layers[1].extra = "post"
    /\ result = ARXIV_ABS_BASE \o input.dest.id

----------------------------------------------------------------------------
(* Claims about NonPaperLinkFilter, checked under SpecFilter *)

\* C5: exclusion precedence: a URL that matches an exclusion pattern and an
\* inclusion pattern is rejected.
C5_ExclusionPrecedence ==
    (/\ fpc = "done"
     /\ MatchesAny(NON_PAPER_PATTERNS, furl)
     /\ MatchesAny(PAPER_INDICATORS, furl))
        => keep = FALSE

\* C5's case: a redirect-wrapper link that carries info= has been rejected
C5_Witness ==
    /\ fpc = "done"
    /\ finput.page = PAGE_REDIRECT
    /\ \E k \in 1..Len(finput.params) : finput.params[k] = Q_INFO
    /\ MatchesAny(PAPER_INDICATORS, furl)
    /\ keep = FALSE

\* the URL holds an inclusion marker, whatever its case: scholar_url,
\* arxiv.org/abs/ or arxiv.org/pdf/
HoldsPaperMarker(u) ==
    \/ Contains(Lower(u), <<"s","c","h","o","l","a","r","_","u","r","l">>)
    \/ Contains(Lower(u), ARXIV_DOMAIN \o VIEW_ABS)
    \/ Contains(Lower(u), ARXIV_DOMAIN \o VIEW_PDF)

\* C6: default-deny: a URL that matches no exclusion and no inclusion pattern
\* is rejected, and a URL is kept only if it holds an inclusion marker.
C6_DefaultDeny ==
    fpc = "done" =>
        /\ (~MatchesAny(NON_PAPER_PATTERNS, furl) /\ ~HoldsPaperMarker(furl)) => keep = FALSE
        /\ keep = TRUE => HoldsPaperMarker(furl)

\* C6's case: https://example.com/paper.pdf matches neither list and has
\* been rejected
C6_Witness ==
    /\ fpc = "done"
    /\ furl = PAGE_OTHER
    /\ ~MatchesAny(NON_PAPER_PATTERNS, furl)
    /\ keep = FALSE

\* C8: every URL of a Google Scholar citation-management page, settings page
\* or search-result page is rejected, whatever its query string holds.
C8_ScholarPagesRejected ==
    (/\ fpc = "done"
     /\ finput.page \in {PAGE_CITATIONS, PAGE_SETTINGS, PAGE_SEARCH, PAGE_SEARCH_UPPER})
        => keep = FALSE

----------------------------------------------------------------------------
(* Claims about LinkExtractor, checked under SpecExtract *)

\* the links of the text, as it was put together
LinksInText == {titems[k].link : k \in 1..Len(titems)}

\* every configured filter keeps u (the default filter when none is configured)
KeptByEveryFilter(u) ==
    LET fs == IF filters = <<>> THEN <<"NonPaperLinkFilter">> ELSE filters
    IN  \A k \in 1..Len(fs) : FilterShouldKeep(fs[k], u)

\* C9: extract_links returns exactly the cleaned URLs of the text that every
\* configured filter keeps; for a text with one redirect-wrapped paper link and
\* one citation-management link it returns one URL, which holds scholar_url.
C9_ExtractKeepsExactlyPassing ==
    epc = "done" =>
        /\ {links[i] : i \in 1..Len(links)} = {u \in LinksInText : KeptByEveryFilter(u)}
        /\ (/\ filters = <<>>
            /\ Len(titems) = 2
            /\ LinksInText \in {{WRAPPED_ARXIV, CITATION_LINK}, {WRAPPED_OTHER, CITATION_LINK}})
               => /\ Len(links) = 1
                  /\ Contains(links[1], <<"s","c","h","o","l","a","r","_","u","r","l">>)

\* C9's case: the text held a wrapped paper link and a citation-management
\* link, and the wrapped link alone came back
C9_Witness ==
    /\ epc = "done"
    /\ filters = <<>>
    /\ Len(titems) = 2
    /\ LinksInText = {WRAPPED_ARXIV, CITATION_LINK}
    /\ links = <<WRAPPED_ARXIV>>

\* C10: no returned URL ends in one of . , ; : ! ? ) and no URL is returned
\* twice; occurrences that differ only in trailing punctuation are one entry.
C10_NoTrailingPunctuationNoDuplicates ==
    epc = "done" =>
        /\ \A i \in 1..Len(links) :
              /\ Len(links[i]) > 0
              /\ links[i][Len(links[i])] \notin {".", ",", ";", ":", "!", "?", ")"}
        /\ \A i, j \in 1..Len(links) : links[i] = links[j] => i = j
        /\ \A k \in 1..Len(titems) :
              Cardinality({i \in 1..Len(links) : links[i] = titems[k].link}) <= 1

\* C10's case: the same link occurred twice, followed by different
\* punctuation, and came back once
C10_Witness ==
    /\ epc = "done"
    /\ Len(titems) = 2
    /\ titems[1].link = titems[2].link
    /\ titems[1].ending = <<")", ".", "<", "b", "r", ">">>
    /\ titems[2].ending = <<"?", "!", " ">>
    /\ links = <<titems[1].link>>

----------------------------------------------------------------------------
(* Claims about get_unique_links, checked under SpecDedup *)

\* the links of the emails, in visiting order
Visited == Traversal(demails)

\* where the normalised form x is first produced in the visit (0 if never)
FirstProduced(x) ==
    LET at == {k \in 1..Len(Visited) : process_paper_url(Visited[k]) = x}
    IN  IF at = {} THEN 0 ELSE CHOOSE k \in at : \A n \in at : k <= n

\* C2: cross-source deduplication: the list holds no entry twice, each entry
\* is the normalised form of an input link, and a direct document-view link
\* and a redirect-wrapped link to the same document give one entry, the
\* canonical abstract-view URL.
C2_CrossSourceDedup ==
    dpc = "done" =>
        /\ \A i, j \in 1..Len(dunique) : dunique[i] = dunique[j] => i = j
        /\ \A i \in 1..Len(dunique) : FirstProduced(dunique[i]) # 0
        /\ {Visited[k] : k \in 1..Len(Visited)} = {DIRECT_PDF, WRAPPED_PDF}
              => dunique = <<CANONICAL_ABS>>

\* C2's case: one email held the direct link, another the wrapped link, and
\* the list is the one canonical URL
C2_Witness ==
    /\ dpc = "done"
    /\ Len(demails) = 2
    /\ demails[1].links = <<DIRECT_PDF>>
    /\ demails[2].links = <<WRAPPED_PDF>>
    /\ dunique = <<CANONICAL_ABS>>

\* C3: order of first appearance: every normalised form is in the list, and
\* of two entries the one first produced earlier in the visit comes first.
C3_FirstSeenOrder ==
    dpc = "done" =>
        /\ \A k \in 1..Len(Visited) :
              \E i \in 1..Len(dunique) : dunique[i] = process_paper_url(Visited[k])
        /\ \A i, j \in 1..Len(dunique) :
              i < j => FirstProduced(dunique[i]) < FirstProduced(dunique[j])

\* C3's case: two emails, a later duplicate dropped, and more than one entry
C3_Witness ==
    /\ dpc = "done"
    /\ Len(demails) = 2
    /\ demails[1].links = <<WRAPPED_PDF, EXAMPLE_URL>>
    /\ demails[2].links = <<DIRECT_PDF, DIRECT_ABS>>
    /\ Len(dunique) = 3
    /\ dunique[1] = CANONICAL_ABS /\ dunique[2] = EXAMPLE_URL

----------------------------------------------------------------------------
(* Claims about the orchestrated run, checked under SpecMain *)

\* C7: every link that reaches get_unique_links is one that every Link Filter
\* kept: a link NonPaperLinkFilter rejects is never normalised.
C7_OnlyKeptLinksReachDedup ==
    mpc \in {"emails", "links"} =>
        \A k \in 1..Len(emails) :
            \A i \in 1..Len(emails[k].links) : should_keep(emails[k].links[i])

----------------------------------------------------------------------------
(* Claims about single processors and chains, checked under SpecProc *)

\* C11: ArxivProcessor.process on a URL that holds an arXiv identifier
\* returns exactly https://arxiv.org/abs/<id>: the version suffix and the
\* .pdf extension are gone, whether the URL was a /pdf/ or an /abs/ view.
C11_ArxivToAbs ==
    (ppc = "done" /\ pcall = "ArxivProcessor.process" /\ pinput.dest.kind = "arxiv") =>
        poutcome = Return(ARXIV_ABS_BASE \o pinput.dest.id)

\* a document view with a version suffix and the .pdf extension has been
\* rewritten to the abstract view
C11_Witness ==
    /\ ppc = "done" /\ pcall = "ArxivProcessor.process"
    /\ pinput.wrap = "none"
    /\ pinput.dest.kind = "arxiv"
    /\ pinput.dest.view = VIEW_PDF
    /\ pinput.dest.suffix = SUFFIX_V2_PDF
    /\ poutcome.value = ARXIV_ABS_BASE \o ID_NEW

\* C12: ArxivProcessor.process returns the URL it was given, and raises
\* nothing, when the URL holds no match of the identifier pattern (a legacy
\* identifier such as cs/0112001).
C12_NoIdentifierUnchanged ==
    (ppc = "done" /\ pcall = "ArxivProcessor.process" /\ pinput.dest.kind = "other") =>
        poutcome = Return(purl)

\* the legacy URL of the tests has come back as it was given
C12_Witness ==
    /\ ppc = "done" /\ pcall = "ArxivProcessor.process"
    /\ pinput.wrap = "none"
    /\ pinput.dest.id = LEGACY_URL
    /\ poutcome = Return(LEGACY_URL)

\* the wrappers whose query string has no url parameter to use, and the one
\* that does not parse
NoUrlParameter(in) == in.wrap \in {"none", "noparam", "blank", "upper", "badhost"}

\* the percent-decoded value of the url parameter a wrapper carries
DecodedUrlParameter(in) ==
    IF in.wrap = "encoded" THEN ProcDestUrl(in.dest) ELSE unquote(ProcDestUrl(in.dest))

\* C13: GoogleScholarProcessor.process never raises; without a url parameter,
\* or when parsing fails, it returns the URL it was given; otherwise it
\* returns the percent-decoded value of the first url parameter.
C13_FailOpen ==
    (ppc = "done" /\ pcall = "GoogleScholarProcessor.process") =>
        /\ poutcome.exc = "none"
        /\ NoUrlParameter(pinput) => poutcome.value = purl
        /\ ~NoUrlParameter(pinput) => poutcome.value = DecodedUrlParameter(pinput)

\* a URL that holds neither the redirect marker nor arxiv.org, in any case
Unrecognised(u) ==
    /\ ~Contains(Lower(u), SCHOLAR_URL_MARKER)
    /\ ~Contains(Lower(u), ARXIV_DOMAIN)

\* C14: process_paper_url returns unchanged every URL that holds neither
\* scholar.google.com/scholar_url nor arxiv.org.
C14_NoOpOnUnrecognised ==
    (ppc = "done" /\ pcall = "process_paper_url" /\ Unrecognised(purl)) =>
        poutcome = Return(purl)

\* a URL of another site that holds an arXiv identifier has come back as given
C14_Witness ==
    /\ ppc = "done" /\ pcall = "process_paper_url"
    /\ pinput.wrap = "none"
    /\ pinput.dest.kind = "arxiv"
    /\ pinput.dest.site = ALPHAXIV_HOST
    /\ Unrecognised(purl)
    /\ poutcome = Return(purl)

\* the URL after the first n processors of the chain: processor n is applied
\* when its can_process holds of the URL after the first n - 1
RECURSIVE AfterProcessors(_)
AfterProcessors(n) ==
    IF n = 0 THEN purl
    ELSE LET before == AfterProcessors(n - 1)
         IN  IF CanProcess(pchain[n], before)
             THEN Process(pchain[n], before).value
             ELSE before

\* C15: URLProcessorChain.process is a left fold over the processors in list
\* order, each applied iff its can_process holds of the current URL, never of
\* the original; an empty chain returns its input, and a processor whose
\* can_process fails leaves the URL unchanged.
C15_LeftFold ==
    (ppc = "done" /\ pcall = "URLProcessorChain.process") =>
        /\ poutcome = Return(AfterProcessors(Len(pchain)))
        /\ pchain = <<>> => poutcome = Return(purl)
        /\ (Len(pchain) = 1 /\ ~CanProcess(pchain[1], purl)) => poutcome = Return(purl)

\* the wrapper names arxiv.org but the destination it carries does not: the
\* second processor was asked about the destination and left it alone
C15_Witness ==
    /\ ppc = "done" /\ pcall = "URLProcessorChain.process"
    /\ pchain = <<"GoogleScholarProcessor", "ArxivProcessor">>
    /\ pinput.wrap = "ref"
    /\ pinput.dest.kind = "arxiv"
    /\ pinput.dest.site = ALPHAXIV_HOST
    /\ ArxivCanProcess(purl)
    /\ poutcome = Return(ProcDestUrl(pinput.dest))

\* the processors the call ran
ChainOfCall == IF pcall = "process_paper_url" THEN default_processor_chain ELSE pchain

\* what is left of a URL whose redirect wrapper does not parse: the wrapper
\* stays, and an ArxivProcessor in the chain rewrites an arxiv.org destination
AfterFailedUnwrap ==
    IF /\ \E k \in 1..Len(ChainOfCall) : ChainOfCall[k] = "ArxivProcessor"
       /\ pinput.dest.kind = "arxiv"
       /\ pinput.dest.site # ALPHAXIV_HOST
    THEN ARXIV_ABS_BASE \o pinput.dest.id
    ELSE purl

\* C16: URLProcessorChain.process never raises; when a processor fails
\* inside, that step passes the URL through unchanged and the processors
\* after it still run.
C16_NoErrorPropagation ==
    (ppc = "done" /\ pcall \in {"URLProcessorChain.process", "process_paper_url"}) =>
        /\ poutcome.exc = "none"
        /\ pinput.wrap = "badhost" => poutcome.value = AfterFailedUnwrap

\* the redirect wrapper did not parse, and the ArxivProcessor after it still
\* rewrote the URL
C16_Witness ==
    /\ ppc = "done" /\ pcall = "URLProcessorChain.process"
    /\ pchain = <<"GoogleScholarProcessor", "ArxivProcessor">>
    /\ pinput.wrap = "badhost"
    /\ UrlparseRaises(purl)
    /\ pinput.dest.kind = "arxiv"
    /\ pinput.dest.site = ARXIV_HOST
    /\ pinput.dest.view = VIEW_PDF
    /\ poutcome = Return(ARXIV_ABS_BASE \o pinput.dest.id)

----------------------------------------------------------------------------
(* Claims about a configured link filter, checked under SpecCfg *)

\* a list of the filter holds a pattern that does not compile
InvalidConfiguration(filter) ==
    \/ \E k \in 1..Len(filter.NON_PAPER_PATTERNS) : filter.NON_PAPER_PATTERNS[k] = INVALID_PATTERN
    \/ \E k \in 1..Len(filter.PAPER_INDICATORS) : filter.PAPER_INDICATORS[k] = INVALID_PATTERN

\* C17: an invalid custom pattern in the exclusion or inclusion list of a
\* link filter surfaces when the filter and the LinkExtractor are constructed,
\* and never later, in a should_keep or extract_links call on a URL.
C17_ConfigErrorAtConstruction ==
    /\ (cpc # "configured" /\ InvalidConfiguration(cfilter)) => cbuilt # "none"
    /\ cpc = "asked" => coutcome.exc = "none"

----------------------------------------------------------------------------
(* Claims about SimpleHTMLFetcher.fetch, checked under SpecFetch *)

\* every GET of the call so far met a timeout
EveryRequestTimedOut == \A k \in 1..Len(hlog) : hlog[k] = "timeout"

\* C18: a fetch of a supported URL whose every request times out makes
\* exactly retry_times GET requests and then raises PaperFetchError; no fetch
\* call makes more than retry_times requests.
C18_RetryTimesRequests ==
    /\ Len(hlog) <= hretry
    /\ (hpc = "done" /\ can_fetch(hurl) /\ EveryRequestTimedOut) =>
           /\ Len(hlog) = hretry
           /\ houtcome.exc = "PaperFetchError"

\* the fetcher of the tests (retry_times = 2) met two timeouts on the Scholar
\* page and raised
C18_Witness ==
    /\ hpc = "done"
    /\ hurl = CLUSTER_URL
    /\ hretry = 2
    /\ hlog = <<"timeout", "timeout">>
    /\ houtcome.exc = "PaperFetchError"

\* the URL names neither scholar.google.com nor arxiv.org
Unsupported(u) == ~Contains(u, SCHOLAR_DOMAIN) /\ ~Contains(u, ARXIV_DOMAIN)

\* C23: fetch of a URL that contains neither scholar.google.com nor
\* arxiv.org raises PaperFetchError, and no GET request is made for it.
C23_UnsupportedNoRequest ==
    Unsupported(hurl) =>
        /\ hlog = <<>> /\ hrequested = <<>>
        /\ hpc = "done" => houtcome.exc = "PaperFetchError"

\* fetch of the example.com page raised without a request
C23_Witness ==
    /\ hpc = "done"
    /\ hurl = EXAMPLE_URL
    /\ houtcome.exc = "PaperFetchError"
    /\ hlog = <<>>

\* C28: only timeouts are retried: a request failure that is not a timeout
\* is the last GET of the call, and the call raises PaperFetchError, also
\* when attempts remain.
C28_OnlyTimeoutsRetried ==
    \A k \in 1..Len(hlog) :
        hlog[k] \in {"connection", "status"} =>
            /\ k = Len(hlog)
            /\ hpc = "done"
            /\ houtcome.exc = "PaperFetchError"

\* a timeout was retried, then an HTTP error status ended the call with one
\* attempt of three unused
C28_Witness ==
    /\ hpc = "done"
    /\ hretry = 3
    /\ hlog = <<"timeout", "status">>
    /\ houtcome.exc = "PaperFetchError"

\* what the default processor chain makes of the URL passed to fetch
Normalised == ChainProcess(default_processor_chain, hurl).value

\* C29: fetch raises PaperFetchError or returns a PaperInfo whose url is the
\* normalised URL, which names scholar.google.com or arxiv.org; the
\* normalised URL is the only URL requested; a supported input that
\* normalises to a URL of another site ends in PaperFetchError.
C29_ResultUrlIsNormalised ==
    /\ \A k \in 1..Len(hrequested) : hrequested[k] = Normalised
    /\ hpc = "done" =>
          \/ houtcome.exc = "PaperFetchError"
          \/ /\ houtcome.exc = "none"
             /\ houtcome.value.url = Normalised
             /\ ~Unsupported(houtcome.value.url)
    /\ (hpc = "done" /\ ~Unsupported(hurl) /\ Unsupported(Normalised)) =>
          houtcome.exc = "PaperFetchError"

\* a wrapped arXiv PDF link was requested as, and came back as, the abs page
C29_Witness ==
    /\ hpc = "done"
    /\ hurl = WRAPPED_ARXIV
    /\ hlog = <<"timeout", "page">>
    /\ hrequested = <<CANONICAL_ABS, CANONICAL_ABS>>
    /\ houtcome.exc = "none"
    /\ houtcome.value.url = CANONICAL_ABS

----------------------------------------------------------------------------
(* Claims about PaperSummarizer, checked under SpecSum *)

\* C19: process_url never raises: when the fetcher raises PaperFetchError,
\* the provider raises LLMError, or anything else goes wrong, it returns
\* None; and when the fetch fails, summarize is not called for that URL.
C19_ProcessUrlNeverRaises ==
    (spc = "done" /\ scall = "process_url") =>
        /\ sresult.exc = "none"
        /\ sfates[1] # "ok" => sresult.value = None
        /\ sfates[1] = "ok" => sresult.value # None /\ sresult.value.url = surls[1]
        /\ sfates[1] \in {"fetch_error", "fetch_other"} => ssummarized = <<>>

\* the fetcher raised an exception that is not a PaperFetchError: the fetch
\* was made once, summarize was not called and the result is None
C19_Witness ==
    /\ spc = "done" /\ scall = "process_url"
    /\ sfates[1] = "fetch_other"
    /\ sfetched = <<surls[1]>>
    /\ ssummarized = <<>>
    /\ sresult = Return(None)

\* the positions of the URLs the fetcher and the provider both succeed on
Succeeding == SelectSeq([k \in 1..Len(surls) |-> k], LAMBDA k : sfates[k] = "ok")

\* C20: process_urls tries every URL of its input once, in input order, and
\* returns the results of exactly the URLs that were processed successfully,
\* in input order; a failing URL does not stop the later ones, and an empty
\* input gives an empty list with no call of the fetcher.
C20_EveryUrlOnceInOrder ==
    (spc = "done" /\ scall = "process_urls") =>
        /\ sresult.exc = "none"
        /\ sfetched = surls
        /\ Len(sresult.value) = Len(Succeeding)
        /\ \A k \in 1..Len(Succeeding) : sresult.value[k].url = surls[Succeeding[k]]
        /\ surls = <<>> => sresult.value = <<>> /\ sfetched = <<>>

\* the second of three URLs failed and the third was still processed
C20_Witness ==
    /\ spc = "done" /\ scall = "process_urls"
    /\ Len(surls) = 3
    /\ sfates = <<"ok", "fetch_error", "ok">>
    /\ sfetched = surls
    /\ Len(sresult.value) = 2
    /\ sresult.value[2].url = surls[3]

----------------------------------------------------------------------------
(* Claims about load_config, checked under SpecLoad *)

\* the setting each environment variable stands for, and the value its text
\* denotes
SettingOfVariable ==
    [GMAIL_LABEL |-> "gmail_label", GMAIL_UNREAD_ONLY |-> "gmail_unread_only",
     GMAIL_MAX_EMAILS |-> "gmail_max_emails", GMAIL_DAYS_BACK |-> "gmail_days_back",
     FETCHER_TYPE |-> "fetcher_type", FETCHER_TIMEOUT |-> "fetcher_timeout_sec",
     LLM_PROVIDER |-> "llm_provider", LLM_TEMPERATURE |-> "llm_temperature"]

EnvironmentValue(name) ==
    CASE name \in {"GMAIL_LABEL", "FETCHER_TYPE", "LLM_PROVIDER"} -> lenv[name]
      [] name = "GMAIL_UNREAD_ONLY" -> LowerIsTrue(lenv[name])
      [] name \in {"GMAIL_MAX_EMAILS", "GMAIL_DAYS_BACK"} -> IntTexts[lenv[name]]
      [] name \in {"FETCHER_TIMEOUT", "LLM_TEMPERATURE"} -> FloatTexts[lenv[name]]

\* C21: environment variables take priority over the YAML file: for every
\* variable that is set, the configuration load_config returns holds the
\* value of the variable, whatever the file says.
C21_EnvironmentTakesPriority ==
    (lpc = "done" /\ loutcome.exc = "none") =>
        \A name \in DOMAIN lenv :
            (lenv[name] # NOT_SET) =>
                loutcome.value[SettingOfVariable[name]] = EnvironmentValue(name)

\* C27: with no configuration variable set, the configuration load_config
\* returns holds every value the YAML file gives (and the defaults for the
\* rest).
C27_FileKeptWithoutEnvironment ==
    (lpc = "done" /\ \A name \in DOMAIN lenv : lenv[name] = NOT_SET) =>
        /\ loutcome.exc = "none"
        /\ \A k \in DOMAIN lfile.data : loutcome.value[k] = lfile.data[k]
        /\ \A k \in Settings \ DOMAIN lfile.data : loutcome.value[k] = ConfigDefaults[k]

----------------------------------------------------------------------------
(* Claims about GmailClient.batch_mark_as_read, checked under SpecMark *)

\* the ids of the positions where the Gmail API answered with HttpError
Refused == SelectSeq([k \in 1..Len(bids) |-> k], LAMBDA k : bfates[k] = "HttpError")

----------------------------------------------------------------------------
(* Claims about PaperSummarizer.__init__, checked under SpecNew *)

\* the provider the construction has: the one given, or an OpenAIProvider
\* when none is given and one can be made
HasProvider ==
    nprovider # None \/ (nenv.LLM_TEMPERATURE # "hot" /\ nenv.LLM_MAX_TOKENS # "lots")

ProviderAvailable ==
    IF nprovider # None THEN nprovider.available
    ELSE nenv.OPENAI_API_KEY = "sk-xxx"

\* C24: constructing a PaperSummarizer raises SummarizerError exactly when
\* is_available() of the given or default provider is false; otherwise the
\* instance holds the fetcher and the provider it was given.
C24_SummarizerErrorIffUnavailable ==
    (npc = "done" /\ HasProvider) =>
        /\ noutcome.exc = "SummarizerError" <=> ~ProviderAvailable
        /\ ProviderAvailable =>
              /\ noutcome.exc = "none"
              /\ nfetcher # None => noutcome.value.fetcher = nfetcher
              /\ nprovider # None => noutcome.value.llm_provider = nprovider
              /\ nfetcher = None => noutcome.value.fetcher.class = "SimpleHTMLFetcher"
              /\ nprovider = None => noutcome.value.llm_provider.class = "OpenAIProvider"

\* no provider was given and OPENAI_API_KEY is empty: SummarizerError
C24_Witness ==
    /\ npc = "done"
    /\ nprovider = None
    /\ nfetcher # None
    /\ nenv.OPENAI_API_KEY = ""
    /\ HasProvider
    /\ noutcome.exc = "SummarizerError"

----------------------------------------------------------------------------
(* Claims about the optional collaborators, checked under SpecStub *)

\* C25: the capability flag of a stub is what the import gave when the stub
\* was constructed; with the flag off DoclingFetcher.can_fetch is false for
\* every URL and GeminiProvider.is_available is false also when
\* GEMINI_API_KEY is set; DoclingFetcher.fetch raises PaperFetchError and
\* GeminiProvider.summarize raises LLMError, so neither returns a result.
C25_UnavailablePath ==
    /\ xfetcher # None =>
          xfetcher._docling_available = ("docling" \in xbuilt.fetcher)
    /\ xprovider # None =>
          xprovider._genai_available = ("google.generativeai" \in xbuilt.provider)
    /\ (xcall = "DoclingFetcher.can_fetch" /\ "docling" \notin xbuilt.fetcher) =>
          xoutcome = Return(FALSE)
    /\ xcall = "DoclingFetcher.fetch" => xoutcome = Raise("PaperFetchError")
    /\ (xcall = "GeminiProvider.is_available" /\ "google.generativeai" \notin xbuilt.provider) =>
          xoutcome = Return(FALSE)
    /\ xcall = "GeminiProvider.summarize" => xoutcome = Raise("LLMError")

\* a GeminiProvider made with a key but without the library says it is not
\* available, also after the library was installed
C25_Witness ==
    /\ xprovider # None
    /\ xprovider.api_key = "key"
    /\ "google.generativeai" \notin xbuilt.provider
    /\ "google.generativeai" \in xinstalled
    /\ xcall = "GeminiProvider.is_available"
    /\ xoutcome = Return(FALSE)

----------------------------------------------------------------------------
(* Claims about main, checked under SpecRun *)

MarkCalls == {"batch_mark_as_read", "batch_mark_as_read raised"}

\* C26: batch_mark_as_read is called only right after a send_email of the
\* same run that returned: never in a dry run, without RECIPIENT_EMAIL,
\* after a send_email that raised, or in a run that stopped for want of
\* emails, links or papers; and a dry run never calls send_email.
C26_MarkOnlyAfterSend ==
    /\ \A k \in 1..Len(rcalls) :
          rcalls[k] \in MarkCalls =>
              /\ k > 1 /\ rcalls[k - 1] = "send_email"
              /\ ~rargs.dry_run
              /\ renv.RECIPIENT_EMAIL \notin {NOT_SET, ""}
              /\ remails # 0 /\ rlinks # 0 /\ rpapers # 0
    /\ rargs.dry_run => rcalls = <<>>

\* the report was sent and the emails were then marked as read
C26_Witness ==
    /\ rpc = "exit"
    /\ rcalls = <<"send_email", "batch_mark_as_read">>
    /\ routcome = Return(0)

\* a non-dry run got as far as sending and found no recipient
NoRecipientAtSend ==
    /\ ~rargs.dry_run
    /\ renv.RECIPIENT_EMAIL \in {NOT_SET, ""}
    /\ rpapers # 0

\* C30 as stated: main returns 0 or 1 and raises nothing; it returns 1 when
\* a stage raised or RECIPIENT_EMAIL is unset in a non-dry run, and 0 in
\* every other case.
C30_ExitCodes ==
    rpc = "exit" =>
        /\ routcome.exc = "none"
        /\ routcome.value \in {0, 1}
        /\ routcome.value = 1 <=>
              \/ rraised # "none"
              \/ ~rargs.dry_run /\ renv.RECIPIENT_EMAIL = NOT_SET

\* C30, amended: main returns 0 or 1 and raises nothing; it returns 1 when
\* a stage raised, or when a non-dry run that has processed papers and made
\* its report finds RECIPIENT_EMAIL unset or empty, and 0 in every other
\* case.
C30_ExitCodesAtSend ==
    rpc = "exit" =>
        /\ routcome.exc = "none"
        /\ routcome.value \in {0, 1}
        /\ routcome.value = 1 <=> (rraised # "none" \/ NoRecipientAtSend)

\* a run without RECIPIENT_EMAIL that found no emails returned 0
C30_Witness ==
    /\ rpc = "exit"
    /\ ~rargs.dry_run
    /\ renv.RECIPIENT_EMAIL = NOT_SET
    /\ remails = 0
    /\ rraised = "none"
    /\ routcome = Return(0)

====
